---- MODULE Spec2Model ----
(***************************************************************************)
(* Interactive-shell orchestration core of minpeter/agent: the command     *)
(* tokenizer and subcommand classifier, the session registry               *)
(* (shellInteractHook / cleanupAllTrackedSessions and its storage), the    *)
(* keystroke entry point executeTmuxCommand, the multiplexer path          *)
(* resolver, the output stall detector and the Linux TTY input-wait        *)
(* detector.                                                               *)
(*                                                                         *)
(* A string is a sequence of one-character strings, so that tokenizing,    *)
(* prefix tests, splitting and lower-casing are computed as the code       *)
(* computes them.  The fixed texts of message templates are kept as single *)
(* elements of such a sequence.                                            *)
(***************************************************************************)
EXTENDS Integers, Sequences, FiniteSets, TLC

VARIABLES
  sessionStates,     \* hook/index.ts:11   Map<string, ShellInteractSessionState>
  currentSessionId,  \* hook/index.ts:13
  disk,              \* STORAGE_DIR/<sessionID>.json, one document per sessionID
  execs,             \* executeTmuxCommand calls: promise, child process, timer
  cleanups,          \* cleanupAllTrackedSessions calls in flight
  last,              \* the most recent registry / entry-point step (history)
  access,            \* per sessionID: its state's use by this process (history)
  tmuxPath,          \* utils: let tmuxPath
  initPromise,       \* utils: let initPromise
  lookup,            \* the findTmuxPath() child processes of the running resolution
  calls,             \* results handed to the callers of getTmuxPath
  spawnCount,        \* number of `which tmux` processes spawned by this process
  cachedReads,       \* what getCachedTmuxPath returned, and when (history)
  stall,             \* one detectOutputStall / detectOutputStallSync call
  tty,               \* one detectLinuxProcTtyWait call
  tok,               \* one tokenizeCommand call
  cls                \* one findSubcommand call

vars == <<sessionStates, currentSessionId, disk, execs, cleanups, last, access,
          tmuxPath, initPromise, lookup, calls, spawnCount, cachedReads,
          stall, tty, tok, cls>>

utilVars == <<tok, cls>>

registryVars ==
  <<sessionStates, currentSessionId, disk, execs, cleanups, last, access>>
pathVars     == <<tmuxPath, initPromise, lookup, calls, spawnCount, cachedReads>>

-----------------------------------------------------------------------------
(* Strings *)

\* JavaScript null / undefined, kept apart from every string.
NULL == <<"<null>">>

Str_new_session  == <<"n","e","w","-","s","e","s","s","i","o","n">>
Str_kill_session == <<"k","i","l","l","-","s","e","s","s","i","o","n">>
Str_kill_server  == <<"k","i","l","l","-","s","e","r","v","e","r">>
Str_send_keys    == <<"s","e","n","d","-","k","e","y","s">>
Str_capture_pane == <<"c","a","p","t","u","r","e","-","p","a","n","e">>
Str_capturep     == <<"c","a","p","t","u","r","e","p">>
Str_save_buffer  == <<"s","a","v","e","-","b","u","f","f","e","r">>
Str_saveb        == <<"s","a","v","e","b">>
Str_show_buffer  == <<"s","h","o","w","-","b","u","f","f","e","r">>
Str_showb        == <<"s","h","o","w","b">>
Str_pipe_pane    == <<"p","i","p","e","-","p","a","n","e">>
Str_pipep        == <<"p","i","p","e","p">>
Str_Error        == <<"E","r","r","o","r",":">>
Str_cea_a        == <<"c","e","a","-","a">>
Str_cea_b        == <<"c","e","a","-","b">>
Str_dev          == <<"d","e","v">>
Str_sock         == <<"s","o","c","k">>
Str_ok           == <<"o","k">>
Str_no_output    == <<"(","n","o"," ","o","u","t","p","u","t",")">>

\* constants.ts: CEA_SESSION_PREFIX
CEA_SESSION_PREFIX == <<"c","e","a","-">>

\* constants.ts: BLOCKED_TMUX_SUBCOMMANDS
BLOCKED_TMUX_SUBCOMMANDS ==
  { Str_capture_pane, Str_capturep, Str_save_buffer, Str_saveb,
    Str_show_buffer, Str_showb, Str_pipe_pane, Str_pipep }

\* String.prototype.startsWith
StartsWith(s, p) == Len(s) >= Len(p) /\ SubSeq(s, 1, Len(p)) = p

UpperCase == <<"A","B","C","D","E","F","G","H","I","J","K","L","M",
               "N","O","P","Q","R","S","T","U","V","W","X","Y","Z">>
LowerCase == <<"a","b","c","d","e","f","g","h","i","j","k","l","m",
               "n","o","p","q","r","s","t","u","v","w","x","y","z">>

\* String.prototype.toLowerCase
ToLowerCase(s) ==
  [i \in 1..Len(s) |->
     IF \E k \in 1..26 : UpperCase[k] = s[i]
       THEN LowerCase[CHOOSE k \in 1..26 : UpperCase[k] = s[i]]
       ELSE s[i]]

\* s.split(sep)[0]: the text before the first occurrence of the character sep
SplitFirst(s, sep) ==
  IF \E i \in 1..Len(s) : s[i] = sep
    THEN SubSeq(s, 1, (CHOOSE i \in 1..Len(s) :
                         s[i] = sep /\ \A j \in 1..(i-1) : s[j] # sep) - 1)
    ELSE s

RECURSIVE JoinWith(_, _)
\* Array.prototype.join
JoinWith(parts, sep) ==
  IF parts = <<>> THEN <<>>
  ELSE IF Len(parts) = 1 THEN parts[1]
  ELSE parts[1] \o sep \o JoinWith(Tail(parts), sep)

-----------------------------------------------------------------------------
(* Command Tokenizer and Subcommand Classifier (utils) *)

TokInit == [tokens |-> <<>>, current |-> <<>>, inQuote |-> FALSE,
            quoteChar |-> <<>>, escaped |-> FALSE]

\* (mutant) a group is closed by a quote of either kind
TokStep_ClosesAtAnyQuote(st, char) ==
  IF st.escaped
    THEN [st EXCEPT !.current = @ \o <<char>>, !.escaped = FALSE]
  ELSE IF char = "\\"
    THEN [st EXCEPT !.escaped = TRUE]
  ELSE IF (char = "'" \/ char = "\"") /\ ~st.inQuote
    THEN [st EXCEPT !.inQuote = TRUE, !.quoteChar = <<char>>]
  ELSE IF (char = "'" \/ char = "\"") /\ st.inQuote
    THEN [st EXCEPT !.inQuote = FALSE, !.quoteChar = <<>>]
  ELSE IF char = " " /\ ~st.inQuote
    THEN IF st.current # <<>>
           THEN [st EXCEPT !.tokens = Append(@, st.current), !.current = <<>>]
           ELSE st
  ELSE [st EXCEPT !.current = @ \o <<char>>]

\* The body of tokenizeCommand's loop for one character.
TokStep(st, char) ==
  IF st.escaped
    THEN [st EXCEPT !.current = @ \o <<char>>, !.escaped = FALSE]
  ELSE IF char = "\\"
    THEN [st EXCEPT !.escaped = TRUE]
  ELSE IF (char = "'" \/ char = "\"") /\ ~st.inQuote
    THEN [st EXCEPT !.inQuote = TRUE, !.quoteChar = <<char>>]
  ELSE IF <<char>> = st.quoteChar /\ st.inQuote
    THEN [st EXCEPT !.inQuote = FALSE, !.quoteChar = <<>>]
  ELSE IF char = " " /\ ~st.inQuote
    THEN IF st.current # <<>>
           THEN [st EXCEPT !.tokens = Append(@, st.current), !.current = <<>>]
           ELSE st
  ELSE [st EXCEPT !.current = @ \o <<char>>]

RECURSIVE TokLoop(_, _, _)
TokLoop(cmd, i, st) ==
  IF i > Len(cmd) THEN st ELSE TokLoop(cmd, i + 1, TokStep(st, cmd[i]))

\* (mutant) what is left in an open group at the end of the text is dropped
TokFinish_DropsOpenGroup(st) ==
  IF st.current # <<>> /\ ~st.inQuote THEN Append(st.tokens, st.current)
  ELSE st.tokens

\* The statements of tokenizeCommand after its loop.
TokFinish(st) ==
  IF st.current # <<>> THEN Append(st.tokens, st.current) ELSE st.tokens

tokenizeCommand(cmd) == TokFinish(TokLoop(cmd, 1, TokInit))

globalOptionsWithArgs == { <<"-","L">>, <<"-","S">>, <<"-","f">>, <<"-","c">>, <<"-","T">> }

RECURSIVE FindSubLoop_SkipsOne(_, _)
\* (mutant) an option that takes a value is skipped without its value
FindSubLoop_SkipsOne(tokens, i) ==
  IF i > Len(tokens) THEN <<>>
  ELSE IF tokens[i] = <<"-","-">>
    THEN (IF i + 1 <= Len(tokens) THEN tokens[i + 1] ELSE <<>>)
  ELSE IF StartsWith(tokens[i], <<"-">>) THEN FindSubLoop_SkipsOne(tokens, i + 1)
  ELSE tokens[i]

RECURSIVE FindSubLoop(_, _)
\* findSubcommand's while loop from index i (1-based)
FindSubLoop(tokens, i) ==
  IF i > Len(tokens) THEN <<>>
  ELSE IF tokens[i] = <<"-","-">>
    THEN (IF i + 1 <= Len(tokens) THEN tokens[i + 1] ELSE <<>>)
  ELSE IF tokens[i] \in globalOptionsWithArgs THEN FindSubLoop(tokens, i + 2)
  ELSE IF StartsWith(tokens[i], <<"-">>) THEN FindSubLoop(tokens, i + 1)
  ELSE tokens[i]

findSubcommand(tokens) == FindSubLoop(tokens, 1)

-----------------------------------------------------------------------------
(* Session Registry: names, storage documents, the in-memory cache *)

SessionIDs == {"s1", "s2"}

\* getCurrentSessionId() before any setCurrentSessionId
NoSessionId == "null"

\* Words joined by single spaces: how the command strings below are written.
Words(ws) == JoinWith(ws, <<" ">>)

Cmd_new_a       == Words(<<Str_new_session, <<"-","d">>, <<"-","s">>, Str_cea_a>>)
Cmd_new_b       == Words(<<Str_new_session, <<"-","s">>, Str_cea_b \o <<":","0",".","1">>>>)
Cmd_new_dev     == Words(<<Str_new_session, <<"-","d">>, <<"-","s">>, Str_dev>>)
Cmd_new_noname  == Words(<<Str_new_session, <<"-","d">>>>)
Cmd_L_new_a     == Words(<<<<"-","L">>, Str_sock, Str_new_session, <<"-","s">>, Str_cea_a>>)
Cmd_kill_a      == Words(<<Str_kill_session, <<"-","t">>, Str_cea_a>>)
Cmd_kill_b      == Words(<<Str_kill_session, <<"-","t">>, Str_cea_b \o <<".","1">>>>)
Cmd_kill_b_pane == Words(<<Str_kill_session, <<"-","t">>, Str_cea_b \o <<":","0",".","1">>>>)
Cmd_kill_dev    == Words(<<Str_kill_session, <<"-","t">>, Str_dev>>)
Cmd_kill_noname == Str_kill_session
Cmd_kill_server == Str_kill_server
Cmd_send_a      == Words(<<Str_send_keys, <<"-","t">>, Str_cea_a, <<"E","n","t","e","r">>>>)
Cmd_capture     == Words(<<Str_capture_pane, <<"-","t">>, Str_cea_a, <<"-","p">>>>)
Cmd_Capture_uc  == Words(<<<<"C","a","p","t","u","r","e","-","P","a","n","e">>, <<"-","p">>>>)
Cmd_showb       == Str_showb
Cmd_L_capture   == Words(<<<<"-","L">>, Str_sock, Str_capture_pane, <<"-","p">>>>)
Cmd_empty       == <<" ", " ">>

\* The commands handed to recordEvent directly.
HookCommands ==
  { Cmd_new_a, Cmd_new_b, Cmd_new_dev, Cmd_new_noname,
    Cmd_kill_a, Cmd_kill_b, Cmd_kill_b_pane, Cmd_kill_dev, Cmd_kill_server,
    Cmd_send_a }

\* The commands sent through the entry point.
ExecCommands ==
  { Cmd_new_a, Cmd_L_new_a, Cmd_new_dev, Cmd_kill_a, Cmd_kill_b, Cmd_kill_noname,
    Cmd_kill_server, Cmd_send_a,
    Cmd_capture, Cmd_Capture_uc, Cmd_showb, Cmd_L_capture, Cmd_empty }

\* The calls of recordEvent: a command with the output of its run; a failed
\* run has an output that starts with "Error:".
Out_error == Str_Error \o <<" ">> \o Str_ok
HookInputs ==
  { <<cmd, Str_ok>> : cmd \in HookCommands }
    \cup { <<Cmd_new_a, Out_error>>, <<Cmd_kill_server, Out_error>> }
    \cup { <<Cmd_L_capture, Str_ok>> }

\* The second conversation is driven with fewer commands than the first.
HookInputsOf(sessionID) ==
  IF sessionID = "s1" THEN HookInputs
  ELSE { <<Cmd_new_a, Str_ok>>, <<Cmd_kill_server, Str_ok>>, <<Cmd_send_a, Str_ok>> }

Range(s) == { s[i] : i \in 1..Len(s) }

\* A JavaScript Set<string> is kept as the sequence of its elements in
\* insertion order (the order Array.from and for..of see).
SetAdd(set, x)    == IF x \in Range(set) THEN set ELSE Append(set, x)
SetDelete(set, x) == SelectSeq(set, LAMBDA y : y # x)

RECURSIVE NewSet(_)
\* new Set(array): the first occurrence of each element, in order
NewSet(arr) ==
  IF arr = <<>> THEN <<>>
  ELSE SetAdd(NewSet(SubSeq(arr, 1, Len(arr) - 1)), arr[Len(arr)])

\* Map.prototype.set / Map.prototype.delete, and writing / unlinking a file
Put(m, k, v) == [x \in (DOMAIN m) \cup {k} |-> IF x = k THEN v ELSE m[x]]
Remove(m, k) == [x \in (DOMAIN m) \ {k} |-> m[x]]
EmptyMap     == [x \in {} |-> <<>>]

\* (mutant) only the window separator is looked for
normalizeSessionName_ColonOnly(name) == SplitFirst(name, ":")

normalizeSessionName(name) == SplitFirst(SplitFirst(name, ":"), ".")

RECURSIVE FindFlagLoop(_, _, _)
FindFlagLoop(tokens, flag, i) ==
  IF i > Len(tokens) - 1 THEN NULL
  ELSE IF tokens[i] = flag THEN tokens[i + 1]
  ELSE FindFlagLoop(tokens, flag, i + 1)

findFlagValue(tokens, flag) == FindFlagLoop(tokens, flag, 1)

\* JavaScript truthiness of a string | null
Truthy(s) == s # NULL /\ s # <<>>

extractSessionNameFromTokens(tokens, subCommand) ==
  LET sFlag == findFlagValue(tokens, <<"-","s">>)
      tFlag == findFlagValue(tokens, <<"-","t">>)
  IN  IF subCommand = Str_new_session
        THEN IF Truthy(sFlag) THEN normalizeSessionName(sFlag)
             ELSE IF Truthy(tFlag) THEN normalizeSessionName(tFlag)
             ELSE NULL
        ELSE IF Truthy(tFlag) THEN normalizeSessionName(tFlag) ELSE NULL

\* (mutant) any name at all counts as an agent-managed one
isCeaSession_AnyName(sessionName) == sessionName # NULL

isCeaSession(sessionName) ==
  sessionName # NULL /\ StartsWith(sessionName, CEA_SESSION_PREFIX)

\* storage.ts: the document under STORAGE_DIR/<sessionID>.json is either
\* unparseable text ("garbage") or the serialized state.
\* (mutant) the serialized document misses the last tracked name
Document_WithoutLastName(state) ==
  [kind |-> "json", sessionID |-> state.sessionID,
   tmuxSessions |-> SubSeq(state.tmuxSessions, 1, Len(state.tmuxSessions) - 1)]

Document(state) ==
  [kind |-> "json", sessionID |-> state.sessionID, tmuxSessions |-> state.tmuxSessions]
Garbage == [kind |-> "garbage", sessionID |-> "", tmuxSessions |-> <<>>]

\* A document that parses but is not a serialized state: the text {} .
\* serialized.sessionID is undefined and new Set(undefined) is empty; a
\* template string renders undefined as the text "undefined".
UndefinedText == "undefined"
EmptyObject == [kind |-> "json", sessionID |-> UndefinedText, tmuxSessions |-> <<>>]

\* loadShellInteractSessionState: <<>> for null, <<state>> otherwise
loadShellInteractSessionState(sessionID) ==
  IF sessionID \notin DOMAIN disk THEN <<>>
  ELSE IF disk[sessionID].kind # "json" THEN <<>>
  ELSE << [sessionID    |-> disk[sessionID].sessionID,
           tmuxSessions |-> NewSet(disk[sessionID].tmuxSessions)] >>

\* (mutant) every state is written to the document of the first session
saveShellInteractSessionState_FirstKey(d, state) == Put(d, "s1", Document(state))

\* saveShellInteractSessionState: the storage after the write
saveShellInteractSessionState(d, state) == Put(d, state.sessionID, Document(state))

\* (mutant) the unlink removes every document of STORAGE_DIR
clearShellInteractSessionState_WholeDir(d, sessionID) == EmptyMap

\* clearShellInteractSessionState: the storage after the unlink
clearShellInteractSessionState(d, sessionID) ==
  IF sessionID \in DOMAIN d THEN Remove(d, sessionID) ELSE d

\* getOrCreateState: the state object it returns ...
getOrCreateState(sessionID) ==
  IF sessionID \in DOMAIN sessionStates THEN sessionStates[sessionID]
  ELSE LET persisted == loadShellInteractSessionState(sessionID)
       IN  IF persisted # <<>> THEN persisted[1]
           ELSE [sessionID |-> sessionID, tmuxSessions |-> <<>>]

\* (mutant) no look at the cache: storage is read on every call
ReadsStorage_EveryCall(sessionID) == TRUE

\* ... and whether it had to read storage for it
ReadsStorage(sessionID) == sessionID \notin DOMAIN sessionStates

-----------------------------------------------------------------------------
(* Session Registry: shellInteractHook (recordEvent) *)

Tmpl_reminder == <<"\n\n[System Reminder] Active cea-* tmux sessions: ">>
Tmpl_action_1 == <<"\n[Action Required] Background process started in '">>
Tmpl_action_2 == <<"'. Before reporting completion:\n  1. Wait: shell_execute sleep 2-5\n  2. Verify output: shell_execute tmux capture-pane -t ">>
Tmpl_action_3 == <<" -p\n  3. For servers: test the endpoint (e.g., curl localhost:PORT)">>

\* (mutant) the reminder without the block for a newly created session
buildSessionReminderMessage_NoGuidance(sessions, newlyCreated) ==
  IF Len(sessions) = 0 THEN <<>>
  ELSE Tmpl_reminder \o JoinWith(sessions, <<",", " ">>)

\* constants.ts: buildSessionReminderMessage(sessions, newlyCreated?)
buildSessionReminderMessage(sessions, newlyCreated) ==
  IF Len(sessions) = 0 THEN <<>>
  ELSE Tmpl_reminder \o JoinWith(sessions, <<",", " ">>)
       \o (IF Truthy(newlyCreated)
             THEN Tmpl_action_1 \o newlyCreated \o Tmpl_action_2
                  \o newlyCreated \o Tmpl_action_3
             ELSE <<>>)

\* (mutant) every call marks the state as changed, and so saves it
HookMutation_AlwaysSaves(sessions, subCommand, sessionName) ==
  IF subCommand = Str_new_session /\ isCeaSession(sessionName)
    THEN [sessions |-> SetAdd(sessions, sessionName), stateChanged |-> TRUE]
  ELSE IF subCommand = Str_kill_session /\ isCeaSession(sessionName)
    THEN [sessions |-> SetDelete(sessions, sessionName), stateChanged |-> TRUE]
  ELSE IF subCommand = Str_kill_server
    THEN [sessions |-> <<>>, stateChanged |-> TRUE]
  ELSE [sessions |-> sessions, stateChanged |-> TRUE]

\* (mutant) a created session is tracked whatever its name
HookMutation_NoPrefixCheck(sessions, subCommand, sessionName) ==
  IF subCommand = Str_new_session /\ sessionName # NULL
    THEN [sessions |-> SetAdd(sessions, sessionName), stateChanged |-> TRUE]
  ELSE IF subCommand = Str_kill_session /\ isCeaSession(sessionName)
    THEN [sessions |-> SetDelete(sessions, sessionName), stateChanged |-> TRUE]
  ELSE IF subCommand = Str_kill_server
    THEN [sessions |-> <<>>, stateChanged |-> TRUE]
  ELSE [sessions |-> sessions, stateChanged |-> FALSE]

\* shellInteractHook, the if / else-if chain on the tracked set
HookMutation(sessions, subCommand, sessionName) ==
  IF subCommand = Str_new_session /\ isCeaSession(sessionName)
    THEN [sessions |-> SetAdd(sessions, sessionName), stateChanged |-> TRUE]
  ELSE IF subCommand = Str_kill_session /\ isCeaSession(sessionName)
    THEN [sessions |-> SetDelete(sessions, sessionName), stateChanged |-> TRUE]
  ELSE IF subCommand = Str_kill_server
    THEN [sessions |-> <<>>, stateChanged |-> TRUE]
  ELSE [sessions |-> sessions, stateChanged |-> FALSE]

\* (mutant) the reminder is built from the tracked set as the call found it
ReminderSessions_BeforeMutation(before, after) == before

\* shellInteractHook: Array.from(state.tmuxSessions) is evaluated for the
\* reminder after the if / else-if chain and the save have run.
ReminderSessions(before, after) == after

\* shellInteractHook, the value it returns
HookReturn(toolOutput, sessions, subCommand, sessionName) ==
  LET isNewSession == subCommand = Str_new_session
      isSessionOperation ==
        isNewSession \/ subCommand = Str_kill_session \/ subCommand = Str_kill_server
      sessionReminder ==
        IF isSessionOperation
          THEN buildSessionReminderMessage(
                 sessions,
                 IF isNewSession /\ isCeaSession(sessionName) THEN sessionName ELSE NULL)
          ELSE NULL
  IN  [output |-> IF Truthy(sessionReminder) THEN toolOutput \o sessionReminder
                  ELSE toolOutput,
       sessionReminder |-> sessionReminder]

\* shellInteractHook, its first lines, for each command of the model:
\* tokens, subCommand and sessionName (computed once per command).
Classified ==
  [cmd \in HookCommands \cup ExecCommands |->
     LET tokens     == tokenizeCommand(cmd)
         subCommand == findSubcommand(tokens)
     IN  [tokens      |-> tokens,
          subCommand  |-> subCommand,
          sessionName |-> extractSessionNameFromTokens(tokens, subCommand)]]

\* The exit code in the record of a step that is not a child's exit
NoCode == -1

\* The record of the most recent step, for the properties below.
NoLast ==
  [op |-> "none", sid |-> "", cmd |-> <<>>, out |-> <<>>, hooked |-> FALSE,
   pre |-> <<>>, post |-> <<>>, changed |-> FALSE, read |-> FALSE,
   outcome |-> "", output |-> <<>>, reminder |-> NULL,
   spawned |-> FALSE, success |-> FALSE, killed |-> {}, owed |-> {},
   outstanding |-> 0, found |-> "", call |-> 0, signal |-> "",
   code |-> NoCode, timedOut |-> FALSE, current |-> "", issued |-> "",
   late |-> {}]

Position(seq, x) == CHOOSE i \in 1..Len(seq) : seq[i] = x

\* A for..of over a Set sees the elements added while it runs and skips the
\* ones deleted: the position of a running iteration follows the deletions.
CursorAfter(cursor, before, after) ==
  Cardinality({ i \in 1..cursor : before[i] \in Range(after) })

\* A cleanupAllTrackedSessions call.  killed and owed are its account: the
\* names it has made a kill attempt for, and the names that are tracked (at
\* its start, or added to the set it iterates since) and have had none.
\* late are the names a shellInteractHook call has added to the set it
\* iterates since its start and that no later call has removed.
CleanupIdle ==
  [pc |-> "idle", sid |-> "", attached |-> FALSE, snap |-> <<>>,
   cursor |-> 0, killed |-> {}, owed |-> {}, outstanding |-> 0, late |-> {}]

\* The iterations of the running cleanups that hold sessionID's state object
IteratorsAfter(sessionID, before, after) ==
  [c \in DOMAIN cleanups |->
     IF cleanups[c].pc = "killing" /\ cleanups[c].sid = sessionID /\ cleanups[c].attached
       THEN [cleanups[c] EXCEPT
               !.cursor = CursorAfter(@, before, after),
               !.owed = (@ \ (Range(before) \ Range(after)))
                          \cup (Range(after) \ Range(before)),
               !.late = (@ \ (Range(before) \ Range(after)))
                          \cup (Range(after) \ Range(before))]
       ELSE cleanups[c]]

\* shellInteractHook(sessionID, tmuxCommand, toolOutput); writeOk is whether
\* writeFileSync succeeds (it throws otherwise, and so does the hook).
\* event is the record of the step as far as the caller has filled it.
HookStep(event, sessionID, tmuxCommand, toolOutput, writeOk) ==
  IF StartsWith(toolOutput, Str_Error)
    THEN /\ last' = [event EXCEPT !.sid = sessionID, !.cmd = tmuxCommand,
                       !.out = toolOutput, !.hooked = TRUE, !.outcome = "returned",
                       !.output = toolOutput, !.success = TRUE,
                       !.pre = getOrCreateState(sessionID).tmuxSessions,
                       !.post = getOrCreateState(sessionID).tmuxSessions]
         /\ UNCHANGED <<sessionStates, disk, cleanups, access>>
    ELSE LET tokens      == Classified[tmuxCommand].tokens
             subCommand  == Classified[tmuxCommand].subCommand
             state       == getOrCreateState(sessionID)
             sessionName == Classified[tmuxCommand].sessionName
             m           == HookMutation(state.tmuxSessions, subCommand, sessionName)
             newState    == [state EXCEPT !.tmuxSessions = m.sessions]
             ret         == HookReturn(toolOutput,
                                       ReminderSessions(state.tmuxSessions, m.sessions),
                                       subCommand, sessionName)
             threw       == m.stateChanged /\ ~writeOk
         IN  /\ sessionStates' = Put(sessionStates, sessionID, newState)
             /\ access' = [access EXCEPT ![sessionID] = "cached"]
             /\ disk' = IF m.stateChanged /\ writeOk
                          THEN saveShellInteractSessionState(disk, newState)
                          ELSE disk
             /\ cleanups' = IteratorsAfter(sessionID, state.tmuxSessions, m.sessions)
             /\ last' = [event EXCEPT !.sid = sessionID, !.cmd = tmuxCommand,
                           !.out = toolOutput, !.hooked = TRUE,
                           !.pre = state.tmuxSessions, !.post = m.sessions,
                           !.changed = m.stateChanged,
                           !.read = ReadsStorage(sessionID),
                           !.found = access[sessionID],
                           !.outcome = IF threw THEN "threw" ELSE "returned",
                           !.output = IF threw THEN <<>> ELSE ret.output,
                           !.reminder = IF threw THEN NULL ELSE ret.sessionReminder,
                           !.success = ~threw]

RecordEvent(sessionID, tmuxCommand, toolOutput, writeOk) ==
  /\ HookStep([NoLast EXCEPT !.op = "hook"], sessionID, tmuxCommand, toolOutput, writeOk)
  /\ UNCHANGED <<currentSessionId, execs>>

-----------------------------------------------------------------------------
(* Session Registry: cleanupAllTrackedSessions (cleanupAll) *)

\* Concurrent cleanupAllTrackedSessions calls the model follows.
MaxCleanups == 1

CleanupIds == 1..MaxCleanups

\* (mutant) the loop iterates the names the Set held when it started,
\* Array.from(state.tmuxSessions), less the ones deleted since
LiveSet_AsStarted(c) ==
  SelectSeq(IF cleanups[c].attached THEN sessionStates[cleanups[c].sid].tmuxSessions
            ELSE cleanups[c].snap,
            LAMBDA n : n \notin cleanups[c].late)

\* The Set a cleanup iterates: the cached state object while the cache still
\* holds it, the object as it was left once the cache entry is gone.
LiveSet(c) ==
  IF cleanups[c].attached THEN sessionStates[cleanups[c].sid].tmuxSessions
  ELSE cleanups[c].snap

\* (mutant) the loop ends after its first iteration
CleanupNext_FirstOnly(set, cursor) ==
  IF cursor < 1 /\ cursor < Len(set) THEN set[cursor + 1] ELSE NULL

\* The for..of loop of cleanupAllTrackedSessions at its next iteration: the
\* name to kill, or NULL when the iteration is over.
CleanupNext(set, cursor) ==
  IF cursor < Len(set) THEN set[cursor + 1] ELSE NULL

\* The two statements after the loop; the other calls that iterate the same
\* state object keep it, although the cache no longer holds it.
CleanupFinish(c, sessionID, set, map, outcome) ==
  /\ sessionStates' = Remove(map, sessionID)
  /\ disk' = clearShellInteractSessionState(disk, sessionID)
  /\ access' = [access EXCEPT ![sessionID] = "evicted"]
  /\ cleanups' =
       [d \in DOMAIN cleanups |->
          IF d = c THEN CleanupIdle
          ELSE IF cleanups[d].pc = "killing" /\ cleanups[d].sid = sessionID
                  /\ cleanups[d].attached
            THEN [cleanups[d] EXCEPT !.attached = FALSE,
                                     !.snap = map[sessionID].tmuxSessions]
          ELSE cleanups[d]]
  /\ last' = [NoLast EXCEPT !.op = "cleanupDone", !.sid = sessionID, !.post = set,
                !.call = c,
                !.read = cleanups[c].pc = "idle" /\ ReadsStorage(sessionID),
                !.found = IF cleanups[c].pc = "idle" THEN access[sessionID] ELSE "",
                !.outcome = outcome,
                !.killed = cleanups[c].killed,
                !.owed = cleanups[c].owed,
                !.late = cleanups[c].late,
                !.outstanding = IF cleanups[c].pc = "killing"
                                  THEN cleanups[c].outstanding - 1 ELSE 0]

\* cleanupAllTrackedSessions(sessionID) up to its first await, or to its end
\* when the tracked set is empty.
CleanupStart(c, sessionID) ==
  /\ cleanups[c].pc = "idle"
  /\ LET state == getOrCreateState(sessionID)
         map   == Put(sessionStates, sessionID, state)
         name  == CleanupNext(state.tmuxSessions, 0)
     IN  IF name = NULL
           THEN CleanupFinish(c, sessionID, state.tmuxSessions, map, "")
           ELSE /\ sessionStates' = map
                /\ cleanups' = [cleanups EXCEPT ![c] =
                     [pc |-> "killing", sid |-> sessionID, attached |-> TRUE,
                      snap |-> <<>>, cursor |-> 1, killed |-> {name},
                      owed |-> Range(state.tmuxSessions) \ {name},
                      outstanding |-> 1, late |-> {}]]
                /\ last' = [NoLast EXCEPT !.op = "cleanupStart", !.sid = sessionID,
                              !.call = c,
                              !.read = ReadsStorage(sessionID),
                              !.found = access[sessionID],
                              !.pre = state.tmuxSessions]
                /\ UNCHANGED disk
                /\ access' = [access EXCEPT ![sessionID] = "cached"]
  /\ UNCHANGED <<currentSessionId, execs>>

KillOutcomes == {"exit 0", "exit 1", "error"}

\* (mutant) a kill that fails rejects the call: the loop and the two
\* statements after it are not run
CleanupKillDone_FailureAborts(c, outcome) ==
  /\ cleanups[c].pc = "killing"
  /\ LET set  == LiveSet(c)
         name == CleanupNext(set, cleanups[c].cursor)
     IN  IF outcome # "exit 0"
           THEN /\ cleanups' = [cleanups EXCEPT ![c] = CleanupIdle]
                /\ last' = [NoLast EXCEPT !.op = "cleanupKill", !.sid = cleanups[c].sid,
                              !.call = c, !.outcome = outcome]
                /\ UNCHANGED <<sessionStates, disk, access>>
         ELSE IF name = NULL
           THEN CleanupFinish(c, cleanups[c].sid, set, sessionStates, outcome)
           ELSE /\ cleanups' = [cleanups EXCEPT ![c].cursor = @ + 1,
                                                ![c].killed = @ \cup {name},
                                                ![c].owed = @ \ {name}]
                /\ last' = [NoLast EXCEPT !.op = "cleanupKill", !.sid = cleanups[c].sid,
                              !.call = c, !.outcome = outcome]
                /\ UNCHANGED <<sessionStates, disk, access>>
  /\ UNCHANGED <<currentSessionId, execs>>

\* killTmuxSession's child exits or fails to spawn: the promise resolves and
\* the loop goes on with the next name, or ends.
CleanupKillDone(c, outcome) ==
  /\ cleanups[c].pc = "killing"
  /\ LET set  == LiveSet(c)
         name == CleanupNext(set, cleanups[c].cursor)
     IN  IF name = NULL
           THEN CleanupFinish(c, cleanups[c].sid, set, sessionStates, outcome)
           ELSE /\ cleanups' = [cleanups EXCEPT ![c].cursor = @ + 1,
                                                ![c].killed = @ \cup {name},
                                                ![c].owed = @ \ {name}]
                /\ last' = [NoLast EXCEPT !.op = "cleanupKill", !.sid = cleanups[c].sid,
                              !.call = c, !.outcome = outcome]
                /\ UNCHANGED <<sessionStates, disk, access>>
  /\ UNCHANGED <<currentSessionId, execs>>

-----------------------------------------------------------------------------
(* The process and its environment *)

\* An executeTmuxCommand call: signal is what the call has sent to its
\* child with child.kill(), "" when nothing; issued is what
\* getCurrentSessionId() would have returned when the call was made
\* (history).
ExecIdle ==
  [pc |-> "idle", cmd |-> <<>>, timedOut |-> FALSE, signal |-> "", issued |-> ""]

\* The process exits and a new one starts: module state is initialised
\* again, the documents in STORAGE_DIR stay.
Restart ==
  /\ sessionStates' = EmptyMap
  /\ currentSessionId' = NoSessionId
  /\ cleanups' = [c \in DOMAIN cleanups |-> CleanupIdle]
  /\ execs' = [e \in DOMAIN execs |-> ExecIdle]
  /\ last' = [NoLast EXCEPT !.op = "restart"]
  /\ UNCHANGED disk
  /\ access' = [k \in SessionIDs |-> "never"]

\* A document of STORAGE_DIR is damaged outside the program (truncated,
\* overwritten): it no longer parses.
CorruptRecord(sessionID) ==
  /\ sessionID \in DOMAIN disk
  /\ disk[sessionID] # Garbage
  /\ disk' = Put(disk, sessionID, Garbage)
  /\ last' = [NoLast EXCEPT !.op = "corrupt", !.sid = sessionID]
  /\ UNCHANGED <<sessionStates, currentSessionId, execs, cleanups, access>>

\* A document of STORAGE_DIR is replaced outside the program by text that
\* parses as JSON but carries none of the fields of a serialized state.
MalformRecord(sessionID) ==
  /\ sessionID \in DOMAIN disk
  /\ disk[sessionID] # EmptyObject
  /\ disk' = Put(disk, sessionID, EmptyObject)
  /\ last' = [NoLast EXCEPT !.op = "malform", !.sid = sessionID]
  /\ UNCHANGED <<sessionStates, currentSessionId, execs, cleanups, access>>

setCurrentSessionId(sessionId) ==
  /\ currentSessionId' = sessionId
  /\ last' = [NoLast EXCEPT !.op = "setCurrentSessionId", !.sid = sessionId]
  /\ UNCHANGED <<sessionStates, disk, execs, cleanups, access>>

-----------------------------------------------------------------------------
(* The keystroke entry point: executeTmuxCommand *)

\* Concurrent executeTmuxCommand calls the model follows.
MaxExecs == 1

ExecIds == 1..MaxExecs

\* What the child writes to its stdout.
ExecStdouts == { <<>>, Str_ok, Out_error }

Msg_empty   == Str_Error \o <<" Empty tmux command">>
Msg_timeout == Str_Error \o <<" Timeout after 60000ms">>
Msg_failed  == Str_Error \o <<" Command failed with exit code 1">>
Msg_spawn   == Str_Error \o <<" spawn /bin/bash ENOENT">>
Msg_blocked(part) ==
  Str_Error \o <<" ", "'">> \o part
  \o <<"' is blocked. Use shell_execute instead for capturing/printing terminal output.">>

\* executeTmuxCommand: const subcommand = parts[0].toLowerCase()
ExecSubcommand(parts) == ToLowerCase(parts[1])

\* (mutant) only the long names are blocked, their aliases are not
IsBlocked_LongNamesOnly(parts) ==
  ExecSubcommand(parts) \in {Str_capture_pane, Str_save_buffer, Str_show_buffer,
                             Str_pipe_pane}

\* executeTmuxCommand: BLOCKED_TMUX_SUBCOMMANDS.includes(subcommand)
IsBlocked(parts) == ExecSubcommand(parts) \in BLOCKED_TMUX_SUBCOMMANDS

\* executeTmuxCommand(tmuxCommand): the promise executor, up to the spawn
ExecCall(e, tmuxCommand) ==
  /\ execs[e].pc = "idle"
  /\ LET parts == Classified[tmuxCommand].tokens
         event == [NoLast EXCEPT !.op = "execCall", !.cmd = tmuxCommand]
     IN  IF Len(parts) = 0
           THEN /\ last' = [event EXCEPT !.outcome = "resolved", !.output = Msg_empty]
                /\ UNCHANGED execs
         ELSE IF IsBlocked(parts)
           THEN /\ last' = [event EXCEPT !.outcome = "resolved",
                                         !.output = Msg_blocked(parts[1])]
                /\ UNCHANGED execs
         ELSE /\ execs' = [execs EXCEPT ![e] =
                             [pc |-> "running", cmd |-> tmuxCommand, timedOut |-> FALSE,
                              signal |-> "", issued |-> currentSessionId]]
              /\ last' = [event EXCEPT !.spawned = TRUE]
  /\ UNCHANGED <<sessionStates, currentSessionId, disk, cleanups, access>>

\* The setTimeout callback: timedOut = true; child.kill(), which sends
\* SIGTERM
ExecTimeout(e) ==
  /\ execs[e].pc = "running"
  /\ ~execs[e].timedOut
  /\ execs' = [execs EXCEPT ![e].timedOut = TRUE, ![e].signal = "SIGTERM"]
  /\ last' = [NoLast EXCEPT !.op = "execTimeout", !.cmd = execs[e].cmd,
                            !.outcome = "child.kill", !.signal = "SIGTERM"]
  /\ UNCHANGED <<sessionStates, currentSessionId, disk, cleanups, access>>

\* (mutant) the exit handler without its `if (code !== 0)` early return
ExecChildExit_HookOnAnyCode(e, code, stdout, writeOk) ==
  /\ execs[e].pc = "running"
  /\ execs' = [execs EXCEPT ![e] = ExecIdle]
  /\ LET event == [NoLast EXCEPT !.op = "execExit", !.cmd = execs[e].cmd,
                                 !.outcome = "resolved",
                                 !.signal = execs[e].signal,
                                 !.code = code, !.timedOut = execs[e].timedOut,
                                 !.current = currentSessionId,
                                 !.issued = execs[e].issued]
         output == IF stdout # <<>> THEN stdout ELSE Str_no_output
     IN  IF execs[e].timedOut
           THEN /\ last' = [event EXCEPT !.output = Msg_timeout]
                /\ UNCHANGED <<sessionStates, disk, cleanups, access>>
         ELSE IF currentSessionId # NoSessionId
           THEN HookStep(event, currentSessionId, execs[e].cmd, output, writeOk)
         ELSE /\ last' = [event EXCEPT !.output = output, !.success = TRUE]
              /\ UNCHANGED <<sessionStates, disk, cleanups, access>>
  /\ UNCHANGED currentSessionId

\* child.on("exit", code): code 0 or not, with what the child wrote to stdout
ExecChildExit(e, code, stdout, writeOk) ==
  /\ execs[e].pc = "running"
  /\ execs' = [execs EXCEPT ![e] = ExecIdle]
  /\ LET event == [NoLast EXCEPT !.op = "execExit", !.cmd = execs[e].cmd,
                                 !.outcome = "resolved",
                                 !.signal = execs[e].signal,
                                 !.code = code, !.timedOut = execs[e].timedOut,
                                 !.current = currentSessionId,
                                 !.issued = execs[e].issued]
         output == IF stdout # <<>> THEN stdout ELSE Str_no_output
     IN  IF execs[e].timedOut
           THEN /\ last' = [event EXCEPT !.output = Msg_timeout]
                /\ UNCHANGED <<sessionStates, disk, cleanups, access>>
         ELSE IF code # 0
           THEN /\ last' = [event EXCEPT !.output = Msg_failed]
                /\ UNCHANGED <<sessionStates, disk, cleanups, access>>
         ELSE IF currentSessionId # NoSessionId
           THEN HookStep(event, currentSessionId, execs[e].cmd, output, writeOk)
         ELSE /\ last' = [event EXCEPT !.output = output, !.success = TRUE]
              /\ UNCHANGED <<sessionStates, disk, cleanups, access>>
  /\ UNCHANGED currentSessionId

\* child.on("error", err)
ExecChildError(e) ==
  /\ execs[e].pc = "running"
  /\ execs' = [execs EXCEPT ![e] = ExecIdle]
  /\ last' = [NoLast EXCEPT !.op = "execError", !.cmd = execs[e].cmd,
                            !.outcome = "resolved", !.output = Msg_spawn]
  /\ UNCHANGED <<sessionStates, currentSessionId, disk, cleanups, access>>

-----------------------------------------------------------------------------
(* Multiplexer Path Resolver (utils): getTmuxPath, startBackgroundTmuxCheck *)

\* getTmuxPath calls the model follows.
MaxCalls == 3

Str_tmux_bin == <<"/usr/bin/tmux">>
Str_tmux_alt == <<"/usr/local/bin/tmux">>

\* What `which tmux` writes to its stdout, one "data" event at a time, and
\* how many such events the model follows.
WhichChunks == { <<"\n">>, Str_tmux_bin, Str_tmux_alt \o <<"\n">> }
MaxChunks == 3

IsSpace(ch) == ch \in {" ", "\n", "\t", "\r"}

RECURSIVE TrimStart(_)
TrimStart(str) ==
  IF str # <<>> /\ IsSpace(Head(str)) THEN TrimStart(Tail(str)) ELSE str

RECURSIVE TrimEnd(_)
TrimEnd(str) ==
  IF str # <<>> /\ IsSpace(str[Len(str)])
    THEN TrimEnd(SubSeq(str, 1, Len(str) - 1)) ELSE str

\* String.prototype.trim
Trim(str) == TrimEnd(TrimStart(str))

\* A promise: pending, or fulfilled with a value
Pending        == [state |-> "pending", value |-> NULL]
Fulfilled(v)   == [state |-> "fulfilled", value |-> v]
NoPromise      == [state |-> "none", value |-> NULL]

\* The exit code of a child that has not exited (history)
NotExited == -1

LookupIdle ==
  [pc |-> "none", stdout |-> <<>>, nData |-> 0, path |-> NULL,
   whichCode |-> NotExited, verifyCode |-> NotExited]

InitPath ==
  /\ tmuxPath = NULL
  /\ initPromise = NoPromise
  /\ lookup = LookupIdle
  /\ calls = <<>>
  /\ spawnCount = 0
  /\ cachedReads = {}

\* (mutant) getTmuxPath without its `if (initPromise)` early return
StartsLookup_NoInFlightCheck == tmuxPath = NULL

\* getTmuxPath: neither early return is taken, so findTmuxPath() runs
StartsLookup == tmuxPath = NULL /\ initPromise = NoPromise

\* getTmuxPath(): the promise it returns, and the module state it leaves
GetTmuxPathBody ==
  IF tmuxPath # NULL
    THEN [promise |-> Fulfilled(tmuxPath), init |-> initPromise, spawns |-> FALSE]
  ELSE IF ~StartsLookup
    THEN [promise |-> initPromise, init |-> initPromise, spawns |-> FALSE]
  ELSE [promise |-> Pending, init |-> Pending, spawns |-> TRUE]

\* findTmuxPath(): spawn(cmd, ["tmux"])
SpawnWhich(spawns) ==
  /\ spawnCount' = IF spawns THEN spawnCount + 1 ELSE spawnCount
  /\ lookup' = IF spawns THEN [LookupIdle EXCEPT !.pc = "which"] ELSE lookup

\* A caller's getTmuxPath(); calls keeps the promise the caller holds, and
\* how far the resolution was when the call was made.
getTmuxPath ==
  /\ Len(calls) < MaxCalls
  /\ LET r == GetTmuxPathBody
     IN  /\ initPromise' = r.init
         /\ calls' = Append(calls, [state |-> r.promise.state,
                                     value |-> r.promise.value,
                                     at    |-> lookup.pc])
         /\ SpawnWhich(r.spawns)
  /\ UNCHANGED <<tmuxPath, cachedReads>>

startBackgroundTmuxCheck ==
  /\ IF initPromise = NoPromise
       THEN LET r == GetTmuxPathBody
            IN  /\ initPromise' = r.promise
                /\ SpawnWhich(r.spawns)
       ELSE UNCHANGED <<initPromise, lookup, spawnCount>>
  /\ UNCHANGED <<tmuxPath, calls, cachedReads>>

\* findTmuxPath: child.stdout.on("data"), stdout += data.toString()
WhichData(data) ==
  /\ lookup.pc = "which"
  /\ lookup.nData < MaxChunks
  /\ lookup' = [lookup EXCEPT !.stdout = @ \o data, !.nData = @ + 1]
  /\ UNCHANGED <<tmuxPath, initPromise, calls, spawnCount, cachedReads>>

\* findTmuxPath: child.on("exit", code) of `which tmux`
WhichExit(code) ==
  /\ lookup.pc = "which"
  /\ LET path == SplitFirst(Trim(lookup.stdout), "\n")
     IN  lookup' = IF code # 0 \/ path = <<>>
                     THEN [lookup EXCEPT !.pc = "resolved", !.path = NULL,
                                         !.whichCode = code]
                     ELSE [lookup EXCEPT !.pc = "verify", !.path = path,
                                         !.whichCode = code]
  /\ UNCHANGED <<tmuxPath, initPromise, calls, spawnCount, cachedReads>>

\* findTmuxPath: child.on("error") of `which tmux`
WhichError ==
  /\ lookup.pc = "which"
  /\ lookup' = [lookup EXCEPT !.pc = "resolved", !.path = NULL]
  /\ UNCHANGED <<tmuxPath, initPromise, calls, spawnCount, cachedReads>>

\* (mutant) the verification's exit handler resolving with the path
\* whatever the exit code
VerifyExit_AnyCode(verifyCode) ==
  /\ lookup.pc = "verify"
  /\ lookup' = [lookup EXCEPT !.pc = "resolved", !.verifyCode = verifyCode]
  /\ UNCHANGED <<tmuxPath, initPromise, calls, spawnCount, cachedReads>>

\* findTmuxPath: verifyChild.on("exit", verifyCode) of `<path> -V`
VerifyExit(verifyCode) ==
  /\ lookup.pc = "verify"
  /\ lookup' = [lookup EXCEPT !.pc = "resolved",
                                !.path = IF verifyCode = 0 THEN lookup.path ELSE NULL,
                                !.verifyCode = verifyCode]
  /\ UNCHANGED <<tmuxPath, initPromise, calls, spawnCount, cachedReads>>

\* findTmuxPath: verifyChild.on("error")
VerifyError ==
  /\ lookup.pc = "verify"
  /\ lookup' = [lookup EXCEPT !.pc = "resolved", !.path = NULL]
  /\ UNCHANGED <<tmuxPath, initPromise, calls, spawnCount, cachedReads>>

\* getTmuxPath: the .then callback, tmuxPath = path; initPromise and the
\* promises handed out while it was pending are fulfilled with path.
LookupThen ==
  /\ lookup.pc = "resolved"
  /\ tmuxPath' = lookup.path
  /\ initPromise' = Fulfilled(lookup.path)
  /\ calls' = [i \in DOMAIN calls |->
                 IF calls[i].state = "pending"
                   THEN [calls[i] EXCEPT !.state = "fulfilled", !.value = lookup.path]
                   ELSE calls[i]]
  /\ lookup' = [lookup EXCEPT !.pc = "done"]
  /\ UNCHANGED <<spawnCount, cachedReads>>

\* getCachedTmuxPath(): return tmuxPath; cachedReads keeps what it
\* returned and how far the resolution was.
getCachedTmuxPath ==
  /\ cachedReads' = cachedReads \cup {[at |-> lookup.pc, value |-> tmuxPath]}
  /\ UNCHANGED <<tmuxPath, initPromise, lookup, calls, spawnCount>>

NextPath ==
  \/ getTmuxPath /\ UNCHANGED <<registryVars, stall, tty, utilVars>>
  \/ startBackgroundTmuxCheck /\ UNCHANGED <<registryVars, stall, tty, utilVars>>
  \/ \E data \in WhichChunks :
       WhichData(data) /\ UNCHANGED <<registryVars, stall, tty, utilVars>>
  \/ \E code \in {0, 1} :
       WhichExit(code) /\ UNCHANGED <<registryVars, stall, tty, utilVars>>
  \/ WhichError /\ UNCHANGED <<registryVars, stall, tty, utilVars>>
  \/ \E verifyCode \in {0, 1} :
       VerifyExit(verifyCode) /\ UNCHANGED <<registryVars, stall, tty, utilVars>>
  \/ VerifyError /\ UNCHANGED <<registryVars, stall, tty, utilVars>>
  \/ LookupThen /\ UNCHANGED <<registryVars, stall, tty, utilVars>>
  \/ getCachedTmuxPath /\ UNCHANGED <<registryVars, stall, tty, utilVars>>

-----------------------------------------------------------------------------
(* Output Stall Detector: detectOutputStall, detectOutputStallSync *)

\* The largest explicit sample count the model follows.
MaxSamples == 4

\* detectOutputStall: sampleCount = 3, sampleIntervalMs = 500
AsyncDefaultSampleCount == 3
AsyncDefaultIntervalMs  == 500
\* detectOutputStallSync: sampleCount = 2, sampleIntervalMs = 300
SyncDefaultSampleCount  == 2
SyncDefaultIntervalMs   == 300

\* An optional argument: given or left out
Given(v)  == [given |-> TRUE, value |-> v]
Undefined == [given |-> FALSE, value |-> 0]

\* What `tmux capture-pane -p` prints: the pane's text, or nothing
PaneTexts == {"", "A", "B"}

\* (mutant) what the child printed is the sample whatever its status
capturePane_IgnoresStatus(status, stdout) == stdout

\* capturePane: the sample a capture yields
capturePane(status, stdout) == IF status # 0 THEN "" ELSE stdout

RECURSIVE CountUnchangedFrom(_, _)
CountUnchangedFrom(samples, i) ==
  IF i > Len(samples) THEN 0
  ELSE (IF samples[i] = samples[i - 1] THEN 1 ELSE 0)
       + CountUnchangedFrom(samples, i + 1)

\* (mutant) every sample compared with the first one, not with its predecessor
StallUnchangedCount_AgainstFirst(samples) ==
  Cardinality({ i \in 2..Len(samples) : samples[i] = samples[1] })

\* for (let i = 1; i < samples.length; i++) if (samples[i] === samples[i - 1]) unchangedCount++
StallUnchangedCount(samples) == CountUnchangedFrom(samples, 2)

\* (mutant) sampleCount / 2 taken as an integer division
StallConfidence_IntegerHalf(isStalled, sampleCount, unchangedCount) ==
  IF isStalled /\ sampleCount >= 3 THEN "high"
  ELSE IF unchangedCount >= sampleCount \div 2 THEN "medium"
  ELSE "low"

\* The confidence chain; unchangedCount >= sampleCount / 2 is a comparison
\* of reals, so it is taken as 2 * unchangedCount >= sampleCount.
StallConfidence(isStalled, sampleCount, unchangedCount) ==
  IF isStalled /\ sampleCount >= 3 THEN "high"
  ELSE IF 2 * unchangedCount >= sampleCount THEN "medium"
  ELSE "low"

\* detectOutputStall: what it computes from the samples once the sampling
\* loop is over
StallResult(samples, sampleCount, sampleIntervalMs) ==
  LET unchangedCount == StallUnchangedCount(samples)
      isStalled      == unchangedCount = sampleCount - 1
  IN  [isStalled      |-> isStalled,
       sampleCount    |-> sampleCount,
       unchangedCount |-> unchangedCount,
       lastOutput     |-> IF samples = <<>> THEN "" ELSE samples[Len(samples)],
       confidence     |-> StallConfidence(isStalled, sampleCount, unchangedCount),
       detail         |->
         IF isStalled
           THEN [text |-> "Output stalled: %1 samples over %2ms showed no change",
                 n1 |-> sampleCount, n2 |-> (sampleCount - 1) * sampleIntervalMs]
           ELSE [text |-> "Output active: %1 of %2 samples showed changes",
                 n1 |-> sampleCount - unchangedCount, n2 |-> sampleCount]]

\* (mutant) the blocking variant reports "high" from its default of two
\* samples on
StallResultSync_HighFromTwo(samples, sampleCount, sampleIntervalMs) ==
  LET r == StallResult(samples, sampleCount, sampleIntervalMs)
  IN  [r EXCEPT !.confidence = IF r.isStalled /\ sampleCount >= 2 THEN "high" ELSE @]

\* detectOutputStallSync: what it computes from the samples once the
\* sampling loop is over
StallResultSync(samples, sampleCount, sampleIntervalMs) ==
  LET unchangedCount ==
        Cardinality({ i \in 2..Len(samples) : samples[i] = samples[i - 1] })
      isStalled  == unchangedCount = sampleCount - 1
      lastOutput == IF Len(samples) = 0 THEN "" ELSE samples[Len(samples)]
      confidence == IF isStalled /\ sampleCount >= 3 THEN "high"
                    ELSE IF 2 * unchangedCount >= sampleCount THEN "medium"
                    ELSE "low"
      detail ==
        IF isStalled
          THEN [text |-> "Output stalled: %1 samples over %2ms showed no change",
                n1 |-> sampleCount, n2 |-> (sampleCount - 1) * sampleIntervalMs]
          ELSE [text |-> "Output active: %1 of %2 samples showed changes",
                n1 |-> sampleCount - unchangedCount, n2 |-> sampleCount]
  IN  [isStalled      |-> isStalled,
       sampleCount    |-> sampleCount,
       unchangedCount |-> unchangedCount,
       lastOutput     |-> lastOutput,
       confidence     |-> confidence,
       detail         |-> detail]

\* prev is the call that returned before this one, when the caller runs the
\* two variants one after the other (history).
StallIdle ==
  [pc |-> "idle", variant |-> "", sampleCount |-> 0, sampleIntervalMs |-> 0,
   samples |-> <<>>, statuses |-> <<>>, steps |-> <<>>, result |-> <<>>,
   args |-> [sampleCount |-> Undefined, sampleIntervalMs |-> Undefined],
   prev |-> <<>>]

InitStall == stall = StallIdle

\* The sampling loop at `i < sampleCount` with i = samples.length: one more
\* capture, or the result.
StallLoop(st) ==
  IF Len(st.samples) < st.sampleCount
    THEN [st EXCEPT !.pc = "capturing"]
    ELSE [st EXCEPT !.pc = "done",
                    !.result =
                      IF st.variant = "sync"
                        THEN <<StallResultSync(st.samples, st.sampleCount,
                                               st.sampleIntervalMs)>>
                        ELSE <<StallResult(st.samples, st.sampleCount,
                                           st.sampleIntervalMs)>>]

\* A call of detectOutputStall ("async") or detectOutputStallSync ("sync")
\* with its optional sample count and interval.
StallEntry(variant, sampleCount, sampleIntervalMs) ==
  [StallIdle EXCEPT
     !.pc = "called",
     !.variant = variant,
     !.args = [sampleCount |-> sampleCount, sampleIntervalMs |-> sampleIntervalMs],
     !.sampleCount =
       IF sampleCount.given THEN sampleCount.value
       ELSE IF variant = "async" THEN AsyncDefaultSampleCount
       ELSE SyncDefaultSampleCount,
     !.sampleIntervalMs =
       IF sampleIntervalMs.given THEN sampleIntervalMs.value
       ELSE IF variant = "async" THEN AsyncDefaultIntervalMs
       ELSE SyncDefaultIntervalMs]

StallCall(variant, sampleCount, sampleIntervalMs) ==
  /\ stall.pc \in {"idle", "done"}
  /\ stall' = StallLoop(StallEntry(variant, sampleCount, sampleIntervalMs))

\* The caller runs a second detection after the first has returned, and
\* keeps what the first did and returned.
StallCallAgain(variant, sampleCount, sampleIntervalMs) ==
  /\ stall.pc = "done"
  /\ stall.prev = <<>>
  /\ stall' = StallLoop(
       [StallEntry(variant, sampleCount, sampleIntervalMs) EXCEPT
          !.prev = <<[stall EXCEPT !.pc = "returned"]>>])

\* (mutant) a sleep follows every capture, the last one included
StallCapture_SleepsAfterLast(status, stdout) ==
  /\ stall.pc = "capturing"
  /\ LET i  == Len(stall.samples)
         st == [stall EXCEPT !.samples = Append(@, capturePane(status, stdout)),
                             !.statuses = Append(@, status),
                             !.steps = Append(Append(@, "capture"), "sleep")]
     IN  stall' = IF i < stall.sampleCount - 1
                    THEN [st EXCEPT !.pc = "sleeping"]
                    ELSE StallLoop(st)

\* One iteration of the loop up to its sleep: capturePane, samples.push,
\* then the sleep when i < sampleCount - 1, the result otherwise.
StallCapture(status, stdout) ==
  /\ stall.pc = "capturing"
  /\ LET i  == Len(stall.samples)
         st == [stall EXCEPT !.samples = Append(@, capturePane(status, stdout)),
                             !.statuses = Append(@, status),
                             !.steps = Append(@, "capture")]
     IN  stall' = IF i < stall.sampleCount - 1
                    THEN [st EXCEPT !.pc = "sleeping", !.steps = Append(@, "sleep")]
                    ELSE StallLoop(st)

\* The sleep ends: setTimeout fires, or the `sleep` child returns
StallWake ==
  /\ stall.pc = "sleeping"
  /\ stall' = [stall EXCEPT !.pc = "capturing"]

NextStall ==
  \/ \E variant \in {"async", "sync"},
        sampleCount \in {Undefined} \cup { Given(n) : n \in 0..MaxSamples },
        sampleIntervalMs \in {Undefined, Given(100)} :
       StallCall(variant, sampleCount, sampleIntervalMs)
         /\ UNCHANGED <<registryVars, pathVars, tty, utilVars>>
  \/ \E status \in {0, 1}, stdout \in PaneTexts :
       StallCapture(status, stdout) /\ UNCHANGED <<registryVars, pathVars, tty, utilVars>>
  \/ StallWake /\ UNCHANGED <<registryVars, pathVars, tty, utilVars>>

-----------------------------------------------------------------------------
(* TTY Input-Wait Detector: detectLinuxProcTtyWait *)

TTY_READ_WCHAN_PATTERNS ==
  { <<"n","_","t","t","y","_","r","e","a","d">>,
    <<"t","t","y","_","r","e","a","d">>,
    <<"w","a","i","t","_","w","o","k","e","n">>,
    <<"d","o","_","s","e","l","e","c","t">>,
    <<"p","o","l","l","_","s","c","h","e","d","u","l","e","_","t","i","m","e","o","u","t">> }

TTY_READ_STACK_PATTERNS ==
  { <<"n","_","t","t","y","_","r","e","a","d">>,
    <<"t","t","y","_","r","e","a","d">>,
    <<"p","t","y","_","w","r","i","t","e">>,
    <<"t","t","y","_","l","d","i","s","c","_","r","e","c","e","i","v","e","_","b","u","f">> }

\* String.prototype.includes
Includes(str, pattern) ==
  \E i \in 0..(Len(str) - Len(pattern)) : SubSeq(str, i + 1, i + Len(pattern)) = pattern

RECURSIVE SplitOn(_, _)
\* String.prototype.split(sep) for a one-character separator
SplitOn(str, sep) ==
  IF \E i \in 1..Len(str) : str[i] = sep
    THEN LET first == SplitFirst(str, sep)
         IN  <<first>> \o SplitOn(SubSeq(str, Len(first) + 2, Len(str)), sep)
    ELSE <<str>>

Str_pts1        == <<"/dev/pts/1">>
Str_pts2        == <<"/dev/pts/2">>
Str_unknown     == <<"u","n","k","n","o","w","n">>
Str_running     == <<"r","u","n","n","i","n","g">>
Str_vim         == <<"v","i","m">>

\* What the files under /proc/<pid> hold; NULL is a read that fails.
WchanFiles   == { NULL, <<"0">>, <<"n","_","t","t","y","_","r","e","a","d","\n">>, <<"d","o","_","w","a","i","t">>,
                  <<"W","a","i","t","_","W","o","k","e","n">> }
StackFiles   == { NULL, <<>>, <<"[","<","0",">","]"," ","t","t","y","_","r","e","a","d","+","0","x","1","\n">>,
                  <<"[","<","0",">","]"," ","d","o","_","w","a","i","t","+","0","x","5">> }
SyscallFiles == { NULL, Str_running, <<"0"," ","0","x","0"," ","0","x","7","f">>, <<"0"," ","0","x","3"," ","0","x","7","f">>,
                  <<"1"," ","0","x","0"," ","0","x","7","f">>, <<"0">> }
StdinLinks   == { NULL, Str_pts1, Str_pts2 }

\* getProcessWchan: readFileSync(...).trim(), "0" is no wait channel
getProcessWchan(file) ==
  IF file = NULL THEN NULL
  ELSE IF Trim(file) = <<"0">> THEN NULL ELSE Trim(file)

\* getProcessSyscall: readFileSync(...).trim()
getProcessSyscall(file) == IF file = NULL THEN NULL ELSE Trim(file)

checkWchanForTtyRead(wchan) ==
  /\ Truthy(wchan)
  /\ \E pattern \in TTY_READ_WCHAN_PATTERNS :
       Includes(ToLowerCase(wchan), ToLowerCase(pattern))

checkStackForTtyRead(stack) ==
  /\ Truthy(stack)
  /\ \E pattern \in TTY_READ_STACK_PATTERNS :
       Includes(ToLowerCase(stack), ToLowerCase(pattern))

checkSyscallForStdinRead(syscall) ==
  /\ Truthy(syscall)
  /\ syscall # Str_running
  /\ LET parts == SplitOn(syscall, " ")
     IN  /\ Len(parts) >= 2
         /\ parts[1] \in { <<"0">>, <<"r","e","a","d">> }
         /\ parts[2] \in { <<"0","x","0">>, <<"0">> }

\* (mutant) the high row does not ask for stdin
TtyDecision_HighWithoutStdin(stdinMatchesTty, wchanIndicatesTtyRead, stackIndicatesTtyRead, syscallIndicatesStdinRead, positiveSignals) ==
  IF wchanIndicatesTtyRead \/ stackIndicatesTtyRead
    THEN [detected |-> TRUE, confidence |-> "high"]
  ELSE IF stdinMatchesTty /\ (syscallIndicatesStdinRead \/ positiveSignals >= 2)
    THEN [detected |-> TRUE, confidence |-> "medium"]
  ELSE IF positiveSignals >= 1
    THEN [detected |-> TRUE, confidence |-> "low"]
  ELSE [detected |-> FALSE, confidence |-> "low"]

\* (mutant) the low row asks for exactly one positive signal
TtyDecision_LowOnlyForOne(stdinMatchesTty, wchanIndicatesTtyRead, stackIndicatesTtyRead, syscallIndicatesStdinRead, positiveSignals) ==
  IF stdinMatchesTty /\ (wchanIndicatesTtyRead \/ stackIndicatesTtyRead)
    THEN [detected |-> TRUE, confidence |-> "high"]
  ELSE IF stdinMatchesTty /\ (syscallIndicatesStdinRead \/ positiveSignals >= 2)
    THEN [detected |-> TRUE, confidence |-> "medium"]
  ELSE IF positiveSignals = 1
    THEN [detected |-> TRUE, confidence |-> "low"]
  ELSE [detected |-> FALSE, confidence |-> "low"]

\* (mutant) the medium row tried before the high row
TtyDecision_MediumFirst(stdinMatchesTty, wchanIndicatesTtyRead, stackIndicatesTtyRead, syscallIndicatesStdinRead, positiveSignals) ==
  IF stdinMatchesTty /\ (syscallIndicatesStdinRead \/ positiveSignals >= 2)
    THEN [detected |-> TRUE, confidence |-> "medium"]
  ELSE IF stdinMatchesTty /\ (wchanIndicatesTtyRead \/ stackIndicatesTtyRead)
    THEN [detected |-> TRUE, confidence |-> "high"]
  ELSE IF positiveSignals >= 1
    THEN [detected |-> TRUE, confidence |-> "low"]
  ELSE [detected |-> FALSE, confidence |-> "low"]

\* detectLinuxProcTtyWait: the if / else-if chain on the four signals
TtyDecision(stdinMatchesTty, wchanIndicatesTtyRead, stackIndicatesTtyRead, syscallIndicatesStdinRead, positiveSignals) ==
  IF stdinMatchesTty /\ (wchanIndicatesTtyRead \/ stackIndicatesTtyRead)
    THEN [detected |-> TRUE, confidence |-> "high"]
  ELSE IF stdinMatchesTty /\ (syscallIndicatesStdinRead \/ positiveSignals >= 2)
    THEN [detected |-> TRUE, confidence |-> "medium"]
  ELSE IF positiveSignals >= 1
    THEN [detected |-> TRUE, confidence |-> "low"]
  ELSE [detected |-> FALSE, confidence |-> "low"]

\* (mutant) the value as read, null included
OrUnknown_AsRead(value) == value

\* value || "unknown"
OrUnknown(value) == IF Truthy(value) THEN value ELSE Str_unknown

\* detectLinuxProcTtyWait once the pane's tty and the foreground pid are
\* known: the four signals, in the order they are pushed, and the result.
TtySignals(paneTty, stdinFd, wchan, stack, syscall) ==
  << [name |-> "stdin_fd", value |-> OrUnknown(stdinFd),
      indicatesInputWait |-> stdinFd = paneTty],
     [name |-> "wchan", value |-> OrUnknown(wchan),
      indicatesInputWait |-> checkWchanForTtyRead(wchan)],
     [name |-> "stack",
      value |-> IF checkStackForTtyRead(stack)
                  THEN <<"contains tty_read frames">> ELSE <<"no tty_read">>,
      indicatesInputWait |-> checkStackForTtyRead(stack)],
     [name |-> "syscall", value |-> OrUnknown(syscall),
      indicatesInputWait |-> checkSyscallForStdinRead(syscall)] >>

TtyResult(signals, pid, command) ==
  LET positiveSignals ==
        Cardinality({ i \in DOMAIN signals : signals[i].indicatesInputWait })
      d == TtyDecision(signals[1].indicatesInputWait, signals[2].indicatesInputWait,
                       signals[3].indicatesInputWait, signals[4].indicatesInputWait,
                       positiveSignals)
  IN  [detected |-> d.detected, confidence |-> d.confidence,
       signals |-> signals, pid |-> pid, command |-> command]

\* parseInt(str, 10) of a text without sign: the value of its leading
\* digits, NaN when it does not start with a digit.
NaN == -1
DecimalDigits == <<"0", "1", "2", "3", "4", "5", "6", "7", "8", "9">>

RECURSIVE ParseIntLoop(_, _, _)
ParseIntLoop(str, i, acc) ==
  IF i > Len(str) \/ ~(\E d \in 1..10 : DecimalDigits[d] = str[i]) THEN acc
  ELSE ParseIntLoop(str, i + 1,
                    10 * acc + (CHOOSE d \in 1..10 : DecimalDigits[d] = str[i]) - 1)

ParseInt(str) ==
  IF str = <<>> \/ ~(\E d \in 1..10 : DecimalDigits[d] = str[1]) THEN NaN
  ELSE ParseIntLoop(str, 1, 0)

\* str.split(/\s+/)[0] of a trimmed, non-empty text
FirstPart(str) ==
  IF \E i \in 1..Len(str) : IsSpace(str[i])
    THEN SubSeq(str, 1, (CHOOSE i \in 1..Len(str) :
                           IsSpace(str[i]) /\ \A j \in 1..(i - 1) : ~IsSpace(str[j])) - 1)
    ELSE str

\* null as a pid, and the status of a child that was not run to an exit
NoPid    == -1
NoStatus == -1

\* (mutant) the exit status of ps is not looked at
getForegroundPid_IgnoresStatus(status, stdout) ==
  IF Trim(stdout) = <<>> THEN NoPid
  ELSE LET pid == ParseInt(FirstPart(Trim(stdout)))
       IN  IF pid = NaN THEN NoPid ELSE pid

\* getForegroundPid(tty): status and stdout are what the `ps -t ... | grep
\* '+' | head -1` child returns
getForegroundPid(status, stdout) ==
  IF status # 0 \/ Trim(stdout) = <<>> THEN NoPid
  ELSE LET pid == ParseInt(FirstPart(Trim(stdout)))
       IN  IF pid = NaN THEN NoPid ELSE pid

PsOutputs ==
  { <<>>, <<" ", "\n">>, <<"4","2"," ","S","+"," ","v","i","m","\n">>,
    <<"0"," ","S","+"," ","x","\n">>, <<"p","s",":"," ","e","r","r">> }

NoTtyCall ==
  [platform |-> "", ttyStatus |-> NoStatus, ttyStdout |-> <<>>,
   psStatus |-> NoStatus, psStdout |-> <<>>]

\* What /proc/<pid> shows of the pane's foreground process, and the last
\* call of the detector.
ProcFiles ==
  [ stdinLink |-> StdinLinks, wchanFile |-> WchanFiles,
    stackFile |-> StackFiles, syscallFile |-> SyscallFiles ]

TtyIdle ==
  [ proc |-> [ stdinLink |-> Str_pts1, wchanFile |-> <<"0">>,
               stackFile |-> <<>>, syscallFile |-> Str_running ],
    pc |-> "idle", available |-> FALSE, why |-> "", result |-> <<>>,
    call |-> NoTtyCall ]

InitTty == tty = TtyIdle

\* The foreground process moves on between two calls of the detector: one
\* of its /proc files reads differently.
ProcChange(file, content) ==
  /\ tty.pc = "idle"
  /\ tty.proc[file] # content
  /\ tty' = [tty EXCEPT !.proc[file] = content]

\* The caller has taken the result of the call.
TtyReturn ==
  /\ tty.pc = "done"
  /\ tty' = [tty EXCEPT !.pc = "idle", !.available = FALSE, !.why = "",
                        !.result = <<>>, !.call = NoTtyCall]

TtyUnavailable(why) ==
  [tty EXCEPT !.pc = "done", !.available = FALSE, !.why = why, !.result = <<>>]

\* detectLinuxProcTtyWait(sessionId): a synchronous call.  platform is
\* os.platform(); ttyStatus and ttyStdout are what `tmux display -p
\* "#{pane_tty}"` returns; psStatus and psStdout what the ps child of
\* getForegroundPid returns; comm is the command name of the process found;
\* the signals are read from /proc/<pid>.
detectLinuxProcTtyWait(platform, ttyStatus, ttyStdout, psStatus, psStdout, comm) ==
  /\ tty.pc = "idle"
  /\ tty' =
    LET call == [platform |-> platform, ttyStatus |-> ttyStatus,
                 ttyStdout |-> ttyStdout, psStatus |-> psStatus,
                 psStdout |-> psStdout]
        pid  == getForegroundPid(psStatus, psStdout)
    IN  IF platform # "linux"
          THEN [TtyUnavailable("platform") EXCEPT !.call = call]
        ELSE IF ttyStatus # 0 \/ Trim(ttyStdout) = <<>>
          THEN [TtyUnavailable("tty") EXCEPT !.call = call]
        ELSE IF pid = NoPid \/ pid = 0
          THEN [TtyUnavailable("pid") EXCEPT !.call = call]
        ELSE [tty EXCEPT
               !.pc = "done", !.available = TRUE, !.why = "", !.call = call,
               !.result = << TtyResult(
                 TtySignals(Trim(ttyStdout), tty.proc.stdinLink,
                            getProcessWchan(tty.proc.wchanFile), tty.proc.stackFile,
                            getProcessSyscall(tty.proc.syscallFile)),
                 pid, comm) >>]

NextTty ==
  \/ \E file \in DOMAIN ProcFiles : \E content \in ProcFiles[file] :
       ProcChange(file, content) /\ UNCHANGED <<registryVars, pathVars, stall, utilVars>>
  \/ \E platform \in {"linux", "darwin"}, ttyStatus \in {0, 1, NoStatus},
        ttyStdout \in { <<>>, Str_pts1 \o <<"\n">> }, psStatus \in {0, 1},
        psStdout \in PsOutputs, comm \in {NULL, Str_vim} :
       detectLinuxProcTtyWait(platform, ttyStatus, ttyStdout, psStatus, psStdout, comm)
         /\ UNCHANGED <<registryVars, pathVars, stall, utilVars>>
  \/ TtyReturn /\ UNCHANGED <<registryVars, pathVars, stall, utilVars>>

-----------------------------------------------------------------------------
(* Command Tokenizer: calls of tokenizeCommand and what its tokens are *)

\* Longest command text drawn from TokAlphabet.
MaxCmdLen == 4

TokAlphabet == {"a", " ", "\t", "\n", "'", "\"", "\\"}
Quotes      == {"'", "\""}
Whitespace  == {" ", "\t", "\n"}

Cmd_example ==
  Words(<<Str_new_session, <<"-","d">>, <<"-","s">>, Str_cea_a, <<"\\",";">>,
          Str_send_keys, <<"-","t">>, Str_cea_a,
          <<"'","e","c","h","o"," ","h","i","'">>, <<"E","n","t","e","r">>>>)
Cmd_kill_tab ==
  Str_kill_session \o <<"\t">> \o Words(<<<<"-","t">>, Str_cea_a>>)

TokInputs ==
  UNION { [1..n -> TokAlphabet] : n \in 0..MaxCmdLen } \cup {Cmd_example, Cmd_kill_tab}

\* The character at position i follows a backslash that is itself not
\* escaped: the run of backslashes ending just before i has odd length.
EscapedAt(cmd, i) ==
  \E k \in 1..(i - 1) :
     /\ k % 2 = 1
     /\ \A j \in (i - k)..(i - 1) : cmd[j] = "\\"
     /\ (i - k = 1 \/ cmd[i - k - 1] # "\\")

\* quoteChar after the first i characters ("" while inQuote is false): it
\* changes only at the unescaped quotes, so it is the value left by the
\* last of them up to i.
OpenQuote(cmd) ==
  LET marks == { p \in 1..Len(cmd) : ~EscapedAt(cmd, p) /\ cmd[p] \in Quotes }
      q[i \in 0..Len(cmd)] ==
        IF \A p \in marks : p > i THEN ""
        ELSE LET p == CHOOSE x \in marks : x <= i /\ \A y \in marks : y <= i => y <= x
             IN  IF q[p - 1] = "" THEN cmd[p]
                 ELSE IF q[p - 1] = cmd[p] THEN ""
                 ELSE q[p - 1]
  IN  q

\* The characters of cmd at the positions S, in order.
Pick(cmd, S) ==
  [k \in 1..Cardinality(S) |->
     cmd[CHOOSE e \in S : Cardinality({f \in S : f <= e}) = k]]

\* Positions whose character goes into a token: every escaped character, and
\* every other character that is no backslash, no quote opening or closing a
\* group, and no separator (a character of ws outside every group).
KeptAt(cmd, ws) ==
  LET q == OpenQuote(cmd)
  IN  { i \in 1..Len(cmd) :
          \/ EscapedAt(cmd, i)
          \/ /\ cmd[i] # "\\"
             /\ q[i] = q[i - 1]
             /\ ~(cmd[i] \in ws /\ q[i - 1] = "") }

SeparatorAt(cmd, ws) ==
  LET q == OpenQuote(cmd)
  IN  { i \in 1..Len(cmd) : ~EscapedAt(cmd, i) /\ cmd[i] \in ws /\ q[i - 1] = "" }

\* Tokens as the non-empty runs of kept characters between separators.
TokensBy(cmd, ws) ==
  LET kept     == KeptAt(cmd, ws)
      seps     == SeparatorAt(cmd, ws)
      Run(a)   == { i \in kept : i > a /\ \A x \in seps : x > a => i < x }
      from     == { a \in {0} \cup seps : Run(a) # {} }
  IN  [k \in 1..Cardinality(from) |->
         Pick(cmd, Run(CHOOSE a \in from : Cardinality({b \in from : b <= a}) = k))]

\* A tokenizeCommand call that has just been entered.
TokReady(cmd) == [pc |-> "loop", cmd |-> cmd, i |-> 1, st |-> TokInit, tokens |-> <<>>]


\* one iteration of the for..of loop
TokChar ==
  /\ tok.pc = "loop"
  /\ tok.i <= Len(tok.cmd)
  /\ tok' = [tok EXCEPT !.st = TokStep(tok.st, tok.cmd[tok.i]), !.i = tok.i + 1]

\* the loop is over: the last token is pushed and the tokens are returned
TokReturn ==
  /\ tok.pc = "loop"
  /\ tok.i > Len(tok.cmd)
  /\ tok' = [tok EXCEPT !.pc = "done", !.tokens = TokFinish(tok.st)]

NextTok ==
  \/ TokChar /\ UNCHANGED <<registryVars, pathVars, stall, tty, cls>>
  \/ TokReturn /\ UNCHANGED <<registryVars, pathVars, stall, tty, cls>>

\* Longest token list handed to findSubcommand.
MaxTokens == 4

SubTokens ==
  { <<"-","L">>, <<"-","T">>, <<"-","d">>, <<"-","-">>,
    Str_sock, Str_new_session, Str_kill_session }

SubInputs == UNION { [1..n -> SubTokens] : n \in 0..MaxTokens }

\* A findSubcommand call that has just been entered.
SubReady(tokens) == [pc |-> "ready", tokens |-> tokens, result |-> <<>>]

\* findSubcommand(tokens), called and returned
FindSub ==
  /\ cls.pc = "ready"
  /\ cls' = [cls EXCEPT !.pc = "done", !.result = findSubcommand(cls.tokens)]

NextSub == FindSub /\ UNCHANGED <<registryVars, pathVars, stall, tty, tok>>

-----------------------------------------------------------------------------
(* Specifications of the registry and of the entry point *)

InitRegistry ==
  /\ sessionStates = EmptyMap
  /\ currentSessionId = NoSessionId
  /\ disk = EmptyMap
  /\ execs = [e \in ExecIds |-> ExecIdle]
  /\ cleanups = [c \in CleanupIds |-> CleanupIdle]
  /\ last = NoLast
  /\ access = [k \in SessionIDs |-> "never"]

InitUtil == tok = TokReady(<<>>) /\ cls = SubReady(<<>>)

Init == InitRegistry /\ InitPath /\ InitStall /\ InitTty /\ InitUtil

\* The registry as the host drives it: recordEvent and cleanupAll calls,
\* restarts of the process, damage to the stored documents.  Storage writes
\* succeed here; SpecExec follows the failing ones too.
Next ==
  \/ \E k \in SessionIDs : \E in \in HookInputsOf(k) :
       RecordEvent(k, in[1], in[2], TRUE) /\ UNCHANGED <<pathVars, stall, tty, utilVars>>
  \/ \E c \in CleanupIds, k \in SessionIDs :
       CleanupStart(c, k) /\ UNCHANGED <<pathVars, stall, tty, utilVars>>
  \/ \E c \in CleanupIds, o \in KillOutcomes :
       CleanupKillDone(c, o) /\ UNCHANGED <<pathVars, stall, tty, utilVars>>
  \/ Restart /\ UNCHANGED <<pathVars, stall, tty, utilVars>>
  \/ \E k \in SessionIDs : CorruptRecord(k) /\ UNCHANGED <<pathVars, stall, tty, utilVars>>

Spec == Init /\ [][Next]_vars

\* The registry under a host that serializes its calls: no recordEvent
\* while a cleanupAll is running.  Every kill child the cleanup spawns exits
\* or fails to spawn, with whichever outcome.
NoCleanupRunning == \A c \in DOMAIN cleanups : cleanups[c].pc = "idle"

KillSettles ==
  \E c \in CleanupIds, o \in KillOutcomes :
    CleanupKillDone(c, o) /\ UNCHANGED <<pathVars, stall, tty, utilVars>>

NextSerial ==
  \/ \E k \in SessionIDs : \E in \in HookInputsOf(k) :
       /\ NoCleanupRunning
       /\ RecordEvent(k, in[1], in[2], TRUE)
       /\ UNCHANGED <<pathVars, stall, tty, utilVars>>
  \/ \E c \in CleanupIds, k \in SessionIDs :
       CleanupStart(c, k) /\ UNCHANGED <<pathVars, stall, tty, utilVars>>
  \/ KillSettles

SpecSerialLive == Init /\ [][NextSerial]_vars /\ WF_vars(KillSettles)

\* The registry with documents of either damaged kind in storage.
NextStorage ==
  \/ \E k \in SessionIDs : \E in \in HookInputsOf(k) :
       RecordEvent(k, in[1], in[2], TRUE) /\ UNCHANGED <<pathVars, stall, tty, utilVars>>
  \/ Restart /\ UNCHANGED <<pathVars, stall, tty, utilVars>>
  \/ \E k \in SessionIDs : CorruptRecord(k) /\ UNCHANGED <<pathVars, stall, tty, utilVars>>
  \/ \E k \in SessionIDs : MalformRecord(k) /\ UNCHANGED <<pathVars, stall, tty, utilVars>>

SpecStorage == Init /\ [][NextStorage]_vars

\* The entry point: commands sent through executeTmuxCommand under the
\* current session id.
NextExec ==
  \/ \E k \in SessionIDs :
       setCurrentSessionId(k) /\ UNCHANGED <<pathVars, stall, tty, utilVars>>
  \/ \E e \in ExecIds, cmd \in ExecCommands :
       ExecCall(e, cmd) /\ UNCHANGED <<pathVars, stall, tty, utilVars>>
  \/ \E e \in ExecIds : ExecTimeout(e) /\ UNCHANGED <<pathVars, stall, tty, utilVars>>
  \/ \E e \in ExecIds, code \in {0, 1}, stdout \in ExecStdouts, w \in BOOLEAN :
       ExecChildExit(e, code, stdout, w) /\ UNCHANGED <<pathVars, stall, tty, utilVars>>
  \/ \E e \in ExecIds : ExecChildError(e) /\ UNCHANGED <<pathVars, stall, tty, utilVars>>

SpecExec == Init /\ [][NextExec]_vars

\* Calls of the stall detector, one at a time.
SpecStall == Init /\ [][NextStall]_vars

\* Two detections one after the other, each of either variant, with
\* explicit sample counts and intervals, over a pane that shows A or B.
MaxPairSamples == 3
PairIntervals == {100, 200}

NextStallPair ==
  \/ \E variant \in {"async", "sync"}, n \in 0..MaxPairSamples, ms \in PairIntervals :
       /\ stall.pc = "idle"
       /\ StallCall(variant, Given(n), Given(ms))
       /\ UNCHANGED <<registryVars, pathVars, tty, utilVars>>
  \/ \E variant \in {"async", "sync"}, n \in 0..MaxPairSamples, ms \in PairIntervals :
       StallCallAgain(variant, Given(n), Given(ms))
         /\ UNCHANGED <<registryVars, pathVars, tty, utilVars>>
  \/ \E status \in {0, 1}, stdout \in {"A", "B"} :
       StallCapture(status, stdout) /\ UNCHANGED <<registryVars, pathVars, tty, utilVars>>
  \/ StallWake /\ UNCHANGED <<registryVars, pathVars, tty, utilVars>>

SpecStallPair == Init /\ [][NextStallPair]_vars

\* The timer of detectOutputStall's sleep always fires.  Nothing makes a
\* child started with spawnSync exit: neither capturePane nor the `sleep`
\* call passes a timeout, so their return is left to the child.
StallTimerFires ==
  /\ stall.variant = "async"
  /\ StallWake
  /\ UNCHANGED <<registryVars, pathVars, tty, utilVars>>

SpecStallLive == Init /\ [][NextStall]_vars /\ WF_vars(StallTimerFires)

\* Calls of the TTY input-wait detector.
SpecTty == Init /\ [][NextTty]_vars

\* One process resolving the multiplexer binary.
SpecPath == Init /\ [][NextPath]_vars

\* One tokenizeCommand call on each command text of TokInputs, followed
\* through the iterations of its loop.
InitTok ==
  /\ InitRegistry /\ InitPath /\ InitStall /\ InitTty
  /\ tok \in { TokReady(cmd) : cmd \in TokInputs }
  /\ cls = SubReady(<<>>)

SpecTok == InitTok /\ [][NextTok]_vars

\* One findSubcommand call on each token list of SubInputs.
InitSub ==
  /\ InitRegistry /\ InitPath /\ InitStall /\ InitTty
  /\ tok = TokReady(<<>>)
  /\ cls \in { SubReady(tokens) : tokens \in SubInputs }

SpecSub == InitSub /\ [][NextSub]_vars

-----------------------------------------------------------------------------
(* Properties *)

\* C1: a shellInteractHook call whose tool output does not start with
\* "Error:" leaves the tracked set of its sessionID equal to: T plus n when
\* the classified subcommand is new-session and the normalized name n starts
\* with "cea-"; T minus n when it is kill-session and n starts with "cea-";
\* the empty set when it is kill-server; T in every other case.  T is the
\* tracked set the call found, cached or loaded from the stored document.
C1_HookEffectOnTrackedSet ==
  (last.op = "hook" /\ ~StartsWith(last.out, <<"E","r","r","o","r",":">>)) =>
    LET T          == Range(last.pre)
        subCommand == Classified[last.cmd].subCommand
        n          == Classified[last.cmd].sessionName
        prefixed   == n # NULL /\ Len(n) >= 4 /\ SubSeq(n, 1, 4) = <<"c","e","a","-">>
        expected   ==
          CASE subCommand = <<"n","e","w","-","s","e","s","s","i","o","n">> /\ prefixed
                 -> T \cup {n}
            [] subCommand = <<"k","i","l","l","-","s","e","s","s","i","o","n">> /\ prefixed
                 -> T \ {n}
            [] subCommand = <<"k","i","l","l","-","s","e","r","v","e","r">>
                 -> {}
            [] OTHER -> T
    IN  /\ last.sid \in DOMAIN sessionStates
        /\ Range(sessionStates[last.sid].tmuxSessions) = expected
        /\ Len(sessionStates[last.sid].tmuxSessions) = Cardinality(expected)
        /\ sessionStates[last.sid].tmuxSessions = last.post

\* C1 witness: "kill-session -t cea-a" recorded on the tracked set
\* {cea-a, cea-b} has left {cea-b}.
C1_Witness ==
  /\ last.op = "hook" /\ last.out = Str_ok
  /\ last.cmd = Cmd_kill_a
  /\ last.pre = <<Str_cea_a, Str_cea_b>>
  /\ sessionStates[last.sid].tmuxSessions = <<Str_cea_b>>

\* C2: in every state reached by shellInteractHook and
\* cleanupAllTrackedSessions calls and restarts of the process, every name
\* of every tracked set, in the cache and in the stored documents, starts
\* with "cea-".
C2_TrackedNamesArePrefixed ==
  LET prefixed(n) == Len(n) >= 4 /\ SubSeq(n, 1, 4) = <<"c","e","a","-">>
  IN  /\ \A k \in DOMAIN sessionStates :
           \A i \in DOMAIN sessionStates[k].tmuxSessions :
             prefixed(sessionStates[k].tmuxSessions[i])
      /\ \A k \in DOMAIN disk :
           \A i \in DOMAIN disk[k].tmuxSessions : prefixed(disk[k].tmuxSessions[i])
      /\ \A c \in DOMAIN cleanups : \A n \in cleanups[c].killed : prefixed(n)

\* C2 witness: after a restart, "new-session -s dev" was recorded on a
\* tracked set loaded from its stored document, which holds names.
C2_Witness ==
  /\ last.op = "hook" /\ last.out = Str_ok
  /\ last.cmd = Cmd_new_dev
  /\ last.read
  /\ last.pre # <<>>
  /\ sessionStates[last.sid].tmuxSessions = last.pre
  /\ disk[last.sid].tmuxSessions = last.pre

C5_BlockedCheckAgreesWithClassifier ==
  (last.op = "execCall" /\ Classified[last.cmd].tokens # <<>>) =>
    LET parts      == Classified[last.cmd].tokens
        classified == Classified[last.cmd].subCommand
    IN  /\ classified # NULL => ExecSubcommand(parts) = ToLowerCase(classified)
        /\ (classified # NULL /\ ToLowerCase(classified) \in BLOCKED_TMUX_SUBCOMMANDS)
             => (~last.spawned /\ ~last.success)

\* C11: when a shellInteractHook call returns a reminder, the names listed
\* in it are exactly the names tracked after the call's mutation (a name just
\* created is listed, a name just killed is not), and the stored document
\* already holds that set when the set was changed.
C11_ReminderReflectsPostMutation ==
  (last.op = "hook" /\ last.outcome = "returned" /\ last.reminder # NULL) =>
    LET tracked == sessionStates[last.sid].tmuxSessions
        names   == Range(last.pre) \cup Range(tracked)
                     \cup {Classified[last.cmd].sessionName}
        listed(n) ==
          \E i \in 1..Len(last.reminder) :
            /\ i + Len(n) - 1 <= Len(last.reminder)
            /\ SubSeq(last.reminder, i, i + Len(n) - 1) = n
    IN  /\ \A n \in names : listed(n) <=> n \in Range(tracked)
        /\ last.changed => disk[last.sid].tmuxSessions = tracked

\* C11 witness: "kill-session -t cea-a" on {cea-a, cea-b} returned a
\* reminder that lists cea-b and no longer cea-a.
C11_Witness ==
  /\ last.op = "hook" /\ last.cmd = Cmd_kill_a
  /\ last.pre = <<Str_cea_a, Str_cea_b>>
  /\ last.reminder = Tmpl_reminder \o Str_cea_b
  /\ disk[last.sid].tmuxSessions = <<Str_cea_b>>

\* C12 as stated: every new-session, kill-session or kill-server call with
\* non-error output returns the command output followed by a reminder (the
\* "[System Reminder]" line with the tracked names), with the follow-up
\* block exactly when the command is a new-session with a "cea-" name.
C12_LifecycleOutputHasReminder ==
  ( /\ last.op = "hook" /\ last.outcome = "returned"
    /\ ~StartsWith(last.out, Str_Error)
    /\ Classified[last.cmd].subCommand
         \in {Str_new_session, Str_kill_session, Str_kill_server} ) =>
    LET tracked  == sessionStates[last.sid].tmuxSessions
        n        == Classified[last.cmd].sessionName
        guidance == /\ Classified[last.cmd].subCommand = Str_new_session
                    /\ n # NULL /\ StartsWith(n, <<"c","e","a","-">>)
        reminder == Tmpl_reminder \o JoinWith(tracked, <<",", " ">>)
                    \o (IF guidance
                          THEN Tmpl_action_1 \o n \o Tmpl_action_2 \o n \o Tmpl_action_3
                          ELSE <<>>)
    IN  /\ last.reminder = reminder
        /\ last.output = last.out \o reminder

\* C12 amended: such a call returns the command output followed by the
\* reminder when names are tracked after it, and the command output alone
\* with an empty reminder when none is; the follow-up block is there exactly
\* when the command is a new-session with a "cea-" name.
C12_LifecycleOutputReminderWhenTracked ==
  ( /\ last.op = "hook" /\ last.outcome = "returned"
    /\ ~StartsWith(last.out, Str_Error)
    /\ Classified[last.cmd].subCommand
         \in {Str_new_session, Str_kill_session, Str_kill_server} ) =>
    LET tracked  == sessionStates[last.sid].tmuxSessions
        n        == Classified[last.cmd].sessionName
        guidance == /\ Classified[last.cmd].subCommand = Str_new_session
                    /\ n # NULL /\ StartsWith(n, <<"c","e","a","-">>)
        block    == Tmpl_action_1 \o n \o Tmpl_action_2 \o n \o Tmpl_action_3
        reminder == IF tracked = <<>> THEN <<>>
                    ELSE Tmpl_reminder \o JoinWith(tracked, <<",", " ">>)
                         \o (IF guidance THEN block ELSE <<>>)
    IN  /\ last.reminder = reminder
        /\ last.output = last.out \o reminder
        /\ guidance => (tracked # <<>> /\ Includes(last.output, block))
        /\ ~guidance => \A i \in DOMAIN last.output :
                          last.output[i] \notin {Tmpl_action_1[1], Tmpl_action_2[1],
                                                 Tmpl_action_3[1]}

\* C12 witness: "new-session -d -s cea-b:0.1" on {cea-a} returned the output,
\* the reminder listing cea-a and cea-b, and the follow-up block for cea-b.
C12_Witness ==
  /\ last.op = "hook" /\ last.cmd = Cmd_new_b /\ last.out = Str_ok
  /\ last.pre = <<Str_cea_a>>
  /\ last.output = Str_ok \o Tmpl_reminder \o Str_cea_a \o <<",", " ">> \o Str_cea_b
                     \o Tmpl_action_1 \o Str_cea_b \o Tmpl_action_2 \o Str_cea_b
                     \o Tmpl_action_3

\* C13: a step in which shellInteractHook is called with a command whose
\* classified subcommand is none of new-session, kill-session, kill-server
\* returns the command output unchanged and no reminder, leaves the tracked
\* set of every sessionID as it was, and writes nothing to storage.
C13_NonLifecyclePassThrough ==
  [][ ( /\ last'.op = "hook"
        /\ Classified[last'.cmd].subCommand
             \notin { <<"n","e","w","-","s","e","s","s","i","o","n">>,
                      <<"k","i","l","l","-","s","e","s","s","i","o","n">>,
                      <<"k","i","l","l","-","s","e","r","v","e","r">> } )
      => /\ last'.outcome = "returned"
         /\ last'.output = last'.out
         /\ last'.reminder = NULL
         /\ disk' = disk
         /\ \A k \in DOMAIN sessionStates :
              k \in DOMAIN sessionStates' /\ sessionStates'[k] = sessionStates[k]
         /\ \A k \in DOMAIN sessionStates' \ DOMAIN sessionStates :
              /\ k = last'.sid
              /\ sessionStates'[k].tmuxSessions =
                   IF k \in DOMAIN disk /\ disk[k].kind = "json"
                     THEN disk[k].tmuxSessions ELSE <<>> ]_vars

\* C13 witness: "send-keys -t cea-a ..." was recorded while cea-a is tracked
\* and the stored document is damaged: the output came back as it was, and
\* the document was not rewritten.
C13_Witness ==
  /\ last.op = "hook" /\ last.cmd = Cmd_send_a /\ last.out = Str_ok
  /\ last.output = Str_ok /\ last.reminder = NULL
  /\ sessionStates[last.sid].tmuxSessions = <<Str_cea_a>>
  /\ disk[last.sid] = Garbage

\* C14: a state that a step saves loads back, by the same sessionID, as a
\* state with that sessionID and the same tracked set; and a step that has
\* to read storage for a sessionID (after a restart emptied the cache) works
\* on exactly the sessionID and the set of the stored document.
C14_PersistReloadRoundTrip ==
  [][ /\ ( /\ last'.op = "hook" /\ last'.changed /\ last'.outcome = "returned" )
          => \A k \in SessionIDs : k = last'.sid =>
               /\ loadShellInteractSessionState(k)' # <<>>
               /\ loadShellInteractSessionState(k)'[1].sessionID = k
               /\ loadShellInteractSessionState(k)'[1].tmuxSessions
                    = sessionStates'[k].tmuxSessions
      /\ ( /\ last'.op \in {"hook", "cleanupStart"} /\ last'.read
            /\ last'.sid \in DOMAIN disk /\ disk[last'.sid].kind = "json" )
          => /\ last'.pre = disk[last'.sid].tmuxSessions
             /\ last'.sid \in DOMAIN sessionStates'
                  => sessionStates'[last'.sid].sessionID = last'.sid ]_vars

\* C14 witness: {cea-a, cea-b} was saved, the process restarted, and the
\* next call for the sessionID read that set back from storage.
C14_Witness ==
  /\ last.op = "hook" /\ last.read /\ last.cmd = Cmd_send_a
  /\ last.pre = <<Str_cea_a, Str_cea_b>>
  /\ sessionStates[last.sid] = [sessionID |-> last.sid,
                                tmuxSessions |-> <<Str_cea_a, Str_cea_b>>]

\* C15 as stated: a call reads storage for its sessionID only when this
\* process has not accessed that sessionID before.
C15_StorageReadOnlyOnFirstAccess ==
  (last.op \in {"hook", "cleanupStart", "cleanupDone"} /\ last.read)
    => last.found = "never"

\* C15 amended: a shellInteractHook call (with non-error output) or a
\* cleanupAllTrackedSessions call reads storage for its sessionID exactly
\* when this process has not accessed the sessionID before or has completed
\* a cleanupAllTrackedSessions for it since its last read; every other call
\* finds the cache entry and reads nothing.  (last.found is set by the step
\* that makes the call: a hook, the start of a cleanup, or a cleanup that
\* finds nothing to kill and completes at once.)
C15_StorageReadOnFirstAccessOrAfterCleanup ==
  /\ (last.op \in {"hook", "cleanupStart", "cleanupDone"} /\ last.found # "")
       => (last.read <=> last.found \in {"never", "evicted"})
  /\ last.read => last.found # ""
  /\ \A k \in SessionIDs : access[k] = "cached" <=> k \in DOMAIN sessionStates

\* C15 witness: a call for a sessionID that this process had accessed and
\* then cleaned up read storage again.
C15_Witness ==
  /\ last.op = "hook" /\ last.cmd = Cmd_send_a
  /\ last.read /\ last.found = "evicted"
  /\ access[last.sid] = "cached"

\* C16: loading the state of a sessionID never fails, and when the stored
\* document is absent or malformed (it does not parse, or it parses to
\* something that is not the serialized state of that sessionID) the call
\* works on a fresh state: the requested sessionID and, before its own
\* mutation, an empty tracked set.
C16_AbsentOrMalformedLoadsFresh ==
  [][ (last'.op = "hook" /\ last'.read)
        => /\ last'.outcome = "returned"
           /\ \A k \in SessionIDs :
                (k = last'.sid /\ (k \notin DOMAIN disk \/ disk[k] \in {Garbage, EmptyObject}))
                  => /\ last'.pre = <<>>
                     /\ k \in DOMAIN sessionStates'
                     /\ sessionStates'[k].sessionID = k ]_vars

\* C17: a new-session or kill-session whose target carries a window or pane
\* suffix acts on the session part alone, the text before the first ":" or
\* ".": when that part has the cea- prefix the call adds or removes exactly
\* that name and leaves every other tracked name as it was.
C17_SuffixedTargetTracksSessionPart ==
  (last.op = "hook" /\ last.outcome = "returned" /\ ~StartsWith(last.out, Str_Error))
    => LET tokens == Classified[last.cmd].tokens
           sub    == Classified[last.cmd].subCommand
           n      == Len(tokens)
           target == tokens[n]
           seps   == { i \in 1..Len(target) : target[i] \in {":", "."} }
           part   == SubSeq(target, 1, (CHOOSE i \in seps : \A j \in seps : i <= j) - 1)
       IN  (/\ sub \in {Str_new_session, Str_kill_session}
            /\ n >= 2 /\ tokens[n - 1] \in {<<"-","s">>, <<"-","t">>}
            /\ seps # {}
            /\ StartsWith(part, CEA_SESSION_PREFIX))
             => /\ sub = Str_new_session
                    => /\ Range(last.post) = Range(last.pre) \cup {part}
                       /\ sessionStates[last.sid].tmuxSessions = last.post
                /\ sub = Str_kill_session
                    => /\ Range(last.post) = Range(last.pre) \ {part}
                       /\ sessionStates[last.sid].tmuxSessions = last.post

\* a kill with target cea-b:0.1 has removed cea-b and kept cea-a
C17_Witness ==
  /\ last.op = "hook" /\ last.cmd = Cmd_kill_b_pane /\ last.outcome = "returned"
  /\ last.pre = <<Str_cea_a, Str_cea_b>>
  /\ last.post = <<Str_cea_a>>
  /\ sessionStates[last.sid].tmuxSessions = <<Str_cea_a>>

\* C18: tokenizeCommand keeps whitespace inside single or double quotes in
\* the token, closes a group only at an unescaped quote of the kind that
\* opened it, and takes the character after an unescaped backslash literally
\* while dropping the backslash: for every text whose separators are spaces
\* the tokens are the non-empty runs of kept characters between the
\* separators, and the example command gives ";" and "echo hi" as tokens.
C18_QuotesGroupAndBackslashEscapes ==
  (/\ tok.pc = "done"
   /\ SeparatorAt(tok.cmd, Whitespace) = SeparatorAt(tok.cmd, {" "}))
    => /\ tok.tokens = TokensBy(tok.cmd, Whitespace)
       /\ tok.cmd = Cmd_example
            => tok.tokens = << Str_new_session, <<"-","d">>, <<"-","s">>, Str_cea_a,
                               <<";">>, Str_send_keys, <<"-","t">>, Str_cea_a,
                               <<"e","c","h","o"," ","h","i">>,
                               <<"E","n","t","e","r">> >>

\* the example command is tokenized: ten tokens, ";" fifth, "echo hi" ninth
C18_Witness ==
  /\ tok.pc = "done" /\ tok.cmd = Cmd_example
  /\ Len(tok.tokens) = 10
  /\ tok.tokens[5] = <<";">>
  /\ tok.tokens[9] = <<"e","c","h","o"," ","h","i">>

\* C19: tokenizeCommand returns for every text, and when a quote is left
\* open at the end of the text, the text after that quote (its backslashes
\* resolved as everywhere) is the end of the final token.
C19_UnterminatedQuoteEndsInFinalToken ==
  /\ tok.pc = "loop" => ENABLED (TokChar \/ TokReturn)
  /\ tok.pc = "done" =>
       LET cmd    == tok.cmd
           n      == Len(cmd)
           q      == OpenQuote(cmd)
           opened == CHOOSE p \in 1..n :
                       q[p - 1] = "" /\ \A j \in p..n : q[j] # "" /\ q[j] = q[p]
           rest   == Pick(cmd, { i \in (opened + 1)..n :
                                   EscapedAt(cmd, i) \/ cmd[i] # "\\" })
           final  == tok.tokens[Len(tok.tokens)]
       IN  (q[n] # "" /\ rest # <<>>)
             => /\ tok.tokens # <<>>
                /\ Len(final) >= Len(rest)
                /\ SubSeq(final, Len(final) - Len(rest) + 1, Len(final)) = rest

\* the text 'a a with its quote left open gives the one token "a a"
C19_Witness ==
  /\ tok.pc = "done"
  /\ tok.cmd = <<"'", "a", " ", "a">>
  /\ tok.tokens = << <<"a", " ", "a">> >>

\* C20: outside quotes every run of spaces, tabs and newlines is one token
\* boundary and none of its characters is part of a token: the tokens are
\* the non-empty runs of kept characters between such runs.
C20_WhitespaceRunsSeparate ==
  tok.pc = "done" => tok.tokens = TokensBy(tok.cmd, Whitespace)

\* C21: findSubcommand returns for every token list.  It examines the
\* tokens from the front, passing over each option token and, after -L, -S,
\* -f, -c or -T, over the token that follows it; it stops at the first
\* examined token that is "--" or does not start with "-", and returns the
\* token after "--" (whatever its shape), or that first non-option token, or
\* the empty string when there is no such token.
C21_SubcommandIsFirstNonOption ==
  /\ cls.pc = "ready" => ENABLED FindSub
  /\ cls.pc = "done" =>
       LET t == cls.tokens
           n == Len(t)
           plain(i) == StartsWith(t[i], <<"-">>) /\ t[i] # <<"-","-">>
                         /\ t[i] \notin globalOptionsWithArgs
           examined[i \in 1..n] ==
             \/ i = 1
             \/ i > 1 /\ examined[i - 1] /\ plain(i - 1)
             \/ i > 2 /\ examined[i - 2] /\ t[i - 2] \in globalOptionsWithArgs
           stops == { i \in 1..n : examined[i]
                                     /\ (t[i] = <<"-","-">> \/ ~StartsWith(t[i], <<"-">>)) }
           stop  == CHOOSE i \in stops : \A j \in stops : i <= j
       IN  /\ cls.result = IF stops = {} THEN <<>>
                            ELSE IF t[stop] # <<"-","-">> THEN t[stop]
                            ELSE IF stop < n THEN t[stop + 1]
                            ELSE <<>>
           /\ t = << <<"-","L">>, Str_sock, Str_new_session, <<"-","d">> >>
                => cls.result = Str_new_session
           /\ t = << <<"-","-">>, Str_kill_session >> => cls.result = Str_kill_session

\* the list -L sock new-session -d has been classified as new-session
C21_Witness ==
  /\ cls.pc = "done"
  /\ cls.tokens = << <<"-","L">>, Str_sock, Str_new_session, <<"-","d">> >>
  /\ cls.result = Str_new_session

\* C22: a call of the TTY detector always returns, and it returns null,
\* with no signal gathered, when the platform is not linux, when the pane's
\* terminal is not resolved (the tmux child fails or prints nothing), or
\* when no foreground process is resolved for it (the ps child fails, prints
\* nothing, or prints no process id).
C22_UnavailableWithoutSignals ==
  /\ tty.pc = "idle" => ENABLED detectLinuxProcTtyWait("darwin", NoStatus, <<>>, 1, <<>>, NULL)
  /\ tty.pc = "done" =>
       LET c == tty.call
           noPlatform == c.platform # "linux"
           noTerminal == c.ttyStatus # 0 \/ \A i \in 1..Len(c.ttyStdout) : IsSpace(c.ttyStdout[i])
           noProcess  == \/ c.psStatus # 0
                         \/ \A i \in 1..Len(c.psStdout) : IsSpace(c.psStdout[i])
                         \/ \E i \in 1..Len(c.psStdout) :
                              /\ \A j \in 1..(i - 1) : IsSpace(c.psStdout[j])
                              /\ c.psStdout[i] \notin {"1","2","3","4","5","6","7","8","9"}
                              /\ ~IsSpace(c.psStdout[i])
       IN  (noPlatform \/ noTerminal \/ noProcess)
             => ~tty.available /\ tty.result = <<>>

\* on linux with the terminal resolved, ps exits 0 without output: null
C22_Witness ==
  /\ tty.pc = "done"
  /\ tty.call.platform = "linux" /\ tty.call.ttyStatus = 0
  /\ tty.call.ttyStdout = Str_pts1 \o <<"\n">>
  /\ tty.call.psStatus = 0 /\ tty.call.psStdout = <<>>
  /\ ~tty.available /\ tty.result = <<>>

\* C23: in every result the four signals stdin_fd, wchan, stack, syscall are
\* present in that order; a source that could not be read gives a signal that
\* is not positive and has the value "unknown"; and each signal is what it
\* would be had the reads of the other three sources failed.
C23_FailedReadIsUnknownSignal ==
  (tty.pc = "done" /\ tty.available) =>
    LET sig == tty.result[1].signals
        src == << tty.proc.stdinLink, tty.proc.wchanFile,
                  tty.proc.stackFile, tty.proc.syscallFile >>
    IN  /\ Len(sig) = 4
        /\ << sig[1].name, sig[2].name, sig[3].name, sig[4].name >>
             = << "stdin_fd", "wchan", "stack", "syscall" >>
        /\ \A k \in 1..4 :
             src[k] = NULL => ~sig[k].indicatesInputWait /\ sig[k].value = Str_unknown

\* C23 (as amended): the same, except that the stack signal never carries
\* "unknown": when the stack cannot be read its value is "no tty_read", as
\* for a stack that was read and shows no terminal read.
C23_FailedReadDegradesOneSignal ==
  (tty.pc = "done" /\ tty.available) =>
    LET sig == tty.result[1].signals
        src == << tty.proc.stdinLink, tty.proc.wchanFile,
                  tty.proc.stackFile, tty.proc.syscallFile >>
        paneTty == Trim(tty.call.ttyStdout)
        alone == << TtySignals(paneTty, src[1], NULL, NULL, NULL)[1],
                    TtySignals(paneTty, NULL, getProcessWchan(src[2]), NULL, NULL)[2],
                    TtySignals(paneTty, NULL, NULL, src[3], NULL)[3],
                    TtySignals(paneTty, NULL, NULL, NULL, getProcessSyscall(src[4]))[4] >>
    IN  /\ Len(sig) = 4
        /\ << sig[1].name, sig[2].name, sig[3].name, sig[4].name >>
             = << "stdin_fd", "wchan", "stack", "syscall" >>
        /\ \A k \in 1..4 :
             /\ sig[k] = alone[k]
             /\ src[k] = NULL
                  => /\ ~sig[k].indicatesInputWait
                     /\ sig[k].value = IF k = 3 THEN <<"no tty_read">> ELSE Str_unknown

\* the wait channel could not be read, the stack shows a terminal read and
\* stdin is the pane's terminal: wchan is unknown, the result is high
C23_Witness ==
  /\ tty.pc = "done" /\ tty.available
  /\ tty.proc.wchanFile = NULL
  /\ tty.result[1].signals[2].value = Str_unknown
  /\ ~tty.result[1].signals[2].indicatesInputWait
  /\ tty.result[1].signals[3].indicatesInputWait
  /\ tty.result[1].confidence = "high"

\* C24: in every result of the TTY detector, confidence high or medium goes
\* with a stdin descriptor that is the pane's terminal, and confidence high
\* goes, in addition, with a positive wait-channel or stack signal.
C24_HighNeedsStdinAndCorroboration ==
  (tty.pc = "done" /\ tty.available) =>
    LET r == tty.result[1]
        stdinIsPaneTty == tty.proc.stdinLink = Trim(tty.call.ttyStdout)
    IN  /\ r.confidence \in {"high", "medium"} => stdinIsPaneTty
        /\ r.confidence = "high"
             => r.signals[2].indicatesInputWait \/ r.signals[3].indicatesInputWait

\* stdin is the pane's terminal and nothing else is positive: low
C24_Witness ==
  /\ tty.pc = "done" /\ tty.available
  /\ tty.proc.stdinLink = Trim(tty.call.ttyStdout)
  /\ \A k \in 2..4 : ~tty.result[1].signals[k].indicatesInputWait
  /\ tty.result[1].detected /\ tty.result[1].confidence = "low"

\* C25: for the signals of every result, making any one negative signal
\* positive and leaving the other three as they are gives a classification
\* that is not lower, in the order not-detected < low < medium < high.
C25_ClassificationMonotonic ==
  (tty.pc = "done" /\ tty.available) =>
    LET v == [k \in 1..4 |-> tty.result[1].signals[k].indicatesInputWait]
        Decide(w) == TtyDecision(w[1], w[2], w[3], w[4],
                                 Cardinality({ k \in 1..4 : w[k] }))
        Rank(d) == IF ~d.detected THEN 0
                   ELSE IF d.confidence = "low" THEN 1
                   ELSE IF d.confidence = "medium" THEN 2
                   ELSE 3
    IN  /\ Rank(tty.result[1]) = Rank(Decide(v))
        /\ \A k \in 1..4 :
             ~v[k] => Rank(Decide([v EXCEPT ![k] = TRUE])) >= Rank(Decide(v))

\* a result with only the wait channel and the stack positive: low, where
\* a positive stdin would give high
C25_Witness ==
  /\ tty.pc = "done" /\ tty.available
  /\ ~tty.result[1].signals[1].indicatesInputWait
  /\ tty.result[1].signals[2].indicatesInputWait
  /\ tty.result[1].signals[3].indicatesInputWait
  /\ ~tty.result[1].signals[4].indicatesInputWait
  /\ tty.result[1].detected /\ tty.result[1].confidence = "low"

\* C26: a detection call that has started a pane capture eventually
\* returns, whether or not the capture's child process ever exits.
C26_DetectionEventuallyReturns ==
  (stall.pc = "capturing") ~> (stall.pc = "done")

\* C27: a stall detection with sample count N >= 1 that has returned made
\* N captures and N - 1 sleeps, a capture first and then sleep and capture
\* in turn, ending with a capture, and its lastOutput is the Nth sample.
C27_CapturesAlternateWithSleeps ==
  (stall.pc = "done" /\ stall.sampleCount >= 1) =>
    LET N == stall.sampleCount
    IN  /\ Len(stall.samples) = N
        /\ Len(stall.steps) = 2 * N - 1
        /\ \A i \in 1..(2 * N - 1) :
             stall.steps[i] = IF i % 2 = 1 THEN "capture" ELSE "sleep"
        /\ stall.result[1].lastOutput = stall.samples[N]

\* three captures A, A, B with two sleeps between them; lastOutput is B
C27_Witness ==
  /\ stall.pc = "done"
  /\ stall.sampleCount = 3
  /\ stall.samples = <<"A", "A", "B">>
  /\ stall.steps = <<"capture", "sleep", "capture", "sleep", "capture">>
  /\ stall.result[1].lastOutput = "B"

\* C28: a pane capture whose child fails gives the empty string as its
\* sample and the detection goes on to take all N samples; when every one
\* of the N >= 1 captures failed, the result is isStalled with an empty
\* lastOutput.
C28_FailedCaptureIsEmptySample ==
  stall.pc = "done" =>
    LET N == stall.sampleCount
    IN  /\ Len(stall.samples) = N /\ Len(stall.statuses) = N
        /\ stall.result # <<>>
        /\ \A i \in 1..N : stall.statuses[i] # 0 => stall.samples[i] = ""
        /\ (N >= 1 /\ \A i \in 1..N : stall.statuses[i] # 0)
             => stall.result[1].isStalled /\ stall.result[1].lastOutput = ""

\* three captures, each of them failed: stalled, high
C28_Witness ==
  /\ stall.pc = "done"
  /\ stall.sampleCount = 3
  /\ stall.statuses = <<1, 1, 1>>
  /\ stall.samples = <<"", "", "">>
  /\ stall.result[1].isStalled
  /\ stall.result[1].lastOutput = ""
  /\ stall.result[1].confidence = "high"

\* C29: a stall detection called without sample count and interval, in
\* either variant, takes 3 samples at 500 ms, and when the pane did not
\* change it reports a stall with confidence high.
C29_DefaultsAreThreeSamples ==
  (/\ stall.pc = "done"
   /\ ~stall.args.sampleCount.given /\ ~stall.args.sampleIntervalMs.given)
    => /\ stall.sampleCount = 3 /\ Len(stall.samples) = 3
       /\ stall.sampleIntervalMs = 500
       /\ (\A i \in 2..Len(stall.samples) : stall.samples[i] = stall.samples[1])
            => stall.result[1].isStalled /\ stall.result[1].confidence = "high"

\* C30: the cached path is non-null only after `which tmux` exited with
\* code 0 having printed a non-empty path and `<path> -V` exited with code
\* 0, and it is then that path; getCachedTmuxPath returned null whenever it
\* was called before the resolution had completed, and after a lookup or a
\* verification that failed.
C30_CachedPathOnlyAfterVerifiedLookup ==
  LET path == SplitFirst(Trim(lookup.stdout), "\n")
      verified == /\ lookup.pc = "done"
                  /\ lookup.whichCode = 0 /\ path # <<>>
                  /\ lookup.verifyCode = 0
  IN  /\ tmuxPath # NULL => verified /\ tmuxPath = path
      /\ \A r \in cachedReads :
            /\ r.at # "done" => r.value = NULL
            /\ r.value # NULL => verified /\ r.value = path

\* C30 witness: the accessor returned null while `which tmux` ran and
\* while the version probe ran, and the verified path once it was cached.
C30_Witness ==
  /\ lookup.pc = "done" /\ lookup.whichCode = 0 /\ lookup.verifyCode = 0
  /\ tmuxPath = Str_tmux_alt
  /\ [at |-> "which", value |-> NULL] \in cachedReads
  /\ [at |-> "verify", value |-> NULL] \in cachedReads
  /\ [at |-> "done", value |-> Str_tmux_alt] \in cachedReads

\* C31: cleanupAllTrackedSessions runs to completion whatever the kills'
\* outcomes: after a kill that exited non-zero or failed to spawn, the call
\* either has made the kill attempt for the next tracked name or, when none
\* is left, has removed the cache entry and the stored document and
\* returned; and a call that is killing always gets there.
C31_CleanupRunsToCompletion ==
  /\ [][
       \A c \in DOMAIN cleanups :
         (/\ cleanups[c].pc = "killing"
          /\ last'.call = c /\ last'.op \in {"cleanupKill", "cleanupDone"}
          /\ last'.outcome \in {"exit 1", "error"})
           => IF cleanups[c].owed # {}
                THEN /\ cleanups'[c].pc = "killing"
                     /\ cleanups'[c].outstanding = 1
                     /\ cleanups'[c].owed \subseteq cleanups[c].owed
                     /\ Cardinality(cleanups'[c].owed) = Cardinality(cleanups[c].owed) - 1
                     /\ cleanups'[c].killed = cleanups[c].killed \cup
                                                (cleanups[c].owed \ cleanups'[c].owed)
                ELSE /\ cleanups'[c].pc = "idle"
                     /\ last'.op = "cleanupDone"
                     /\ cleanups[c].sid \notin DOMAIN sessionStates'
                     /\ cleanups[c].sid \notin DOMAIN disk'
     ]_vars
  /\ \A c \in CleanupIds, k \in SessionIDs :
       (cleanups[c].pc = "killing" /\ cleanups[c].sid = k)
         ~> (/\ last.op = "cleanupDone" /\ last.call = c /\ last.sid = k
             /\ last.owed = {}
             /\ k \notin DOMAIN sessionStates /\ k \notin DOMAIN disk)

\* C31 witness: the kill of cea-a failed to spawn, and the call is now
\* waiting for the kill of cea-b.
C31_Witness ==
  /\ last.op = "cleanupKill" /\ last.outcome = "error"
  /\ \E c \in DOMAIN cleanups :
       /\ last.call = c
       /\ cleanups[c].pc = "killing"
       /\ cleanups[c].killed = {Str_cea_a, Str_cea_b}
       /\ cleanups[c].cursor = 2
       /\ LiveSet(c) = <<Str_cea_a, Str_cea_b>>

\* C32: a command that times out is only reported: the call sends no
\* signal to the process it spawned, neither when the timer fires nor
\* before the timeout is reported.
C32_TimedOutProcessNotKilled ==
  /\ \A e \in DOMAIN execs : execs[e].timedOut => execs[e].signal = ""
  /\ (last.op = "execExit" /\ last.output = Msg_timeout) => last.signal = ""

\* C33: every executeTmuxCommand call resolves to a {success, output}
\* result and never throws: at once for an empty or blocked command, and in
\* the handler of the child's error or exit otherwise, also when the hook
\* run by the exit handler fails to persist the session state.
C33_EveryCallResolves ==
  /\ (last.op = "execCall" /\ ~last.spawned) =>
       last.outcome = "resolved" /\ ~last.success /\ last.output # <<>>
  /\ last.op = "execError" =>
       last.outcome = "resolved" /\ ~last.success /\ last.output # <<>>
  /\ last.op = "execExit" =>
       /\ last.outcome \in {"resolved", "returned"}
       /\ last.output # <<>>
       /\ \A e \in DOMAIN execs : execs[e].pc = "idle"

\* C34: a step of an executeTmuxCommand call changes the cache or the
\* stored documents only if it is the exit of the child with code 0, not
\* timed out, with a current session id set and an output that does not
\* start with "Error:"; the steps of an empty or blocked command, of a spawn
\* error, of a non-zero exit and of a timeout leave both as they were, and
\* for an output that starts with "Error:" the call resolves with that
\* output as it is.
C34_RegistryChangesOnlyOnSuccess ==
  [][ /\ (sessionStates' # sessionStates \/ disk' # disk) =>
           /\ last'.op = "execExit"
           /\ last'.code = 0 /\ ~last'.timedOut
           /\ last'.current # NoSessionId /\ last'.sid = last'.current
           /\ ~StartsWith(last'.out, Str_Error)
      /\ (/\ last'.op = "execExit" /\ last'.code = 0 /\ ~last'.timedOut
          /\ last'.current # NoSessionId /\ StartsWith(last'.out, Str_Error)) =>
           /\ last'.output = last'.out
           /\ sessionStates' = sessionStates /\ disk' = disk
    ]_vars

\* C34 witness: the child of kill-session -t cea-a exited with code 1
\* under the current session s1, whose tracked set {cea-a} is still what
\* the cache and the stored document hold.
C34_Witness ==
  /\ last.op = "execExit" /\ last.code = 1 /\ ~last.timedOut
  /\ last.cmd = Cmd_kill_a /\ last.current = "s1"
  /\ last.output = Msg_failed
  /\ "s1" \in DOMAIN sessionStates /\ "s1" \in DOMAIN disk
  /\ sessionStates["s1"].tmuxSessions = <<Str_cea_a>>
  /\ disk["s1"].tmuxSessions = <<Str_cea_a>>

\* C35: a recordEvent or cleanupAll step for sessionID A leaves the cache
\* entry and the stored document of every other sessionID B as they were,
\* and every kill a cleanupAll for A issues is for a name in A's tracked
\* set, never for one tracked only under B.
C35_SessionsAreIsolated ==
  [][ \A A \in SessionIDs :
        (/\ last'.sid = A
         /\ last'.op \in {"hook", "cleanupStart", "cleanupKill", "cleanupDone"})
          => /\ \A B \in SessionIDs \ {A} :
                  /\ (B \in DOMAIN sessionStates') = (B \in DOMAIN sessionStates)
                  /\ B \in DOMAIN sessionStates => sessionStates'[B] = sessionStates[B]
                  /\ (B \in DOMAIN disk') = (B \in DOMAIN disk)
                  /\ B \in DOMAIN disk => disk'[B] = disk[B]
             /\ \A c \in DOMAIN cleanups :
                  /\ cleanups'[c].pc = "killing" => cleanups'[c].sid \in
                        {A} \cup {cleanups[d].sid : d \in DOMAIN cleanups}
                  /\ \A n \in cleanups'[c].killed \ cleanups[c].killed :
                        /\ last'.call = c
                        /\ n \in Range(IF cleanups[c].pc = "killing" THEN LiveSet(c)
                                        ELSE getOrCreateState(A).tmuxSessions)
    ]_vars

\* C35 witness: a cleanupAll of s2, which tracked cea-a, has completed
\* with the one kill attempt for cea-a, while s1 tracks cea-b alone in the
\* cache and in its stored document.
C35_Witness ==
  /\ last.op = "cleanupDone" /\ last.sid = "s2"
  /\ last.killed = {Str_cea_a}
  /\ "s2" \notin DOMAIN sessionStates /\ "s2" \notin DOMAIN disk
  /\ "s1" \in DOMAIN sessionStates /\ "s1" \in DOMAIN disk
  /\ sessionStates["s1"].tmuxSessions = <<Str_cea_b>>
  /\ disk["s1"].tmuxSessions = <<Str_cea_b>>

\* C36: the registry update of a command run through executeTmuxCommand
\* is made under the session id that was current when the command was
\* issued, whatever setCurrentSessionId calls were made while its process
\* was running.
C36_RecordedUnderIssuingSession ==
  (last.op = "execExit" /\ last.hooked) => last.sid = last.issued

C38_VariantsAreEquivalent ==
  (stall.pc = "done" /\ stall.prev # <<>>) =>
    LET p == stall.prev[1]
    IN  (/\ p.variant # stall.variant
         /\ p.args.sampleCount.given /\ stall.args.sampleCount.given
         /\ p.args.sampleIntervalMs.given /\ stall.args.sampleIntervalMs.given
         /\ p.args = stall.args
         /\ p.statuses = stall.statuses /\ p.samples = stall.samples)
          => /\ p.steps = stall.steps
             /\ p.result = stall.result
             /\ p.result # <<>>

\* C38 witness: the blocking variant and then the suspending one were run
\* with 3 samples at 100 ms, both captured A, A and a failed capture, and
\* both returned the same result: not stalled, confidence low.
C38_Witness ==
  /\ stall.pc = "done" /\ stall.prev # <<>>
  /\ stall.variant = "async" /\ stall.prev[1].variant = "sync"
  /\ stall.args = [sampleCount |-> Given(3), sampleIntervalMs |-> Given(100)]
  /\ stall.prev[1].args = stall.args
  /\ stall.samples = <<"A", "A", "">> /\ stall.prev[1].samples = stall.samples
  /\ stall.statuses = <<0, 0, 1>> /\ stall.prev[1].statuses = stall.statuses
  /\ stall.result = stall.prev[1].result
  /\ ~stall.result[1].isStalled /\ stall.result[1].confidence = "low"

\* C39: when the stall detector has returned with isStalled false after
\* N >= 1 samples, the number of changed samples in its summary text is the
\* number of adjacent sample pairs that differ, (N - 1) - unchangedCount.
C39_ChangedSamplesInSummary ==
  (stall.pc = "done" /\ stall.sampleCount >= 1 /\ ~stall.result[1].isStalled) =>
    LET r == stall.result[1]
        N == Len(stall.samples)
        differing == { i \in 1..(N - 1) : stall.samples[i] # stall.samples[i + 1] }
    IN  /\ r.detail.text = "Output active: %1 of %2 samples showed changes"
        /\ r.detail.n1 = Cardinality(differing)
        /\ r.detail.n1 = (N - 1) - r.unchangedCount

\* C6: whenever the TTY detector has produced a result, its detected flag
\* and its confidence are those of the first matching row of the decision
\* table over the four signals it recorded (stdin_fd, wchan, stack, syscall)
\* and the number of them that are positive: stdin and (wchan or stack) is
\* detected/high; stdin and (syscall or two or more positive) is
\* detected/medium; one or more positive is detected/low; else not
\* detected/low.
C6_TtyDecisionTable ==
  (tty.pc = "done" /\ tty.available) =>
    LET r               == tty.result[1]
        stdinMatch      == r.signals[1].indicatesInputWait
        wchanMatch      == r.signals[2].indicatesInputWait
        stackMatch      == r.signals[3].indicatesInputWait
        syscallMatch    == r.signals[4].indicatesInputWait
        positiveSignals ==
          Cardinality({ m \in {<<1, stdinMatch>>, <<2, wchanMatch>>,
                               <<3, stackMatch>>, <<4, syscallMatch>>} : m[2] })
    IN  /\ Len(r.signals) = 4
        /\ << r.signals[1].name, r.signals[2].name, r.signals[3].name,
              r.signals[4].name >> = << "stdin_fd", "wchan", "stack", "syscall" >>
        /\ CASE stdinMatch /\ (wchanMatch \/ stackMatch) ->
                  r.detected /\ r.confidence = "high"
             [] stdinMatch /\ (syscallMatch \/ positiveSignals >= 2) ->
                  r.detected /\ r.confidence = "medium"
             [] positiveSignals >= 1 ->
                  r.detected /\ r.confidence = "low"
             [] OTHER ->
                  ~r.detected /\ r.confidence = "low"

\* C6 witness: a call on a process whose stdin is the pane's tty, that
\* sleeps in a tty read and whose syscall file shows a read of fd 0: the
\* first and the second row both match, and the result is the first row's.
C6_Witness ==
  /\ tty.pc = "done" /\ tty.available
  /\ tty.proc.stdinLink = Str_pts1
  /\ tty.proc.syscallFile = <<"0"," ","0","x","0"," ","0","x","7","f">>
  /\ tty.result[1].signals[1].indicatesInputWait
  /\ tty.result[1].signals[2].indicatesInputWait
  /\ ~tty.result[1].signals[3].indicatesInputWait
  /\ tty.result[1].signals[4].indicatesInputWait
  /\ tty.result[1].detected /\ tty.result[1].confidence = "high"

\* C7: whenever the stall detector has returned, for its N captured samples,
\* unchangedCount is the number of positions whose sample equals the one
\* before it, and isStalled is true exactly when unchangedCount = N - 1.
C7_StallUnchangedCount ==
  stall.pc = "done" =>
    LET r     == stall.result[1]
        N     == Len(stall.samples)
        pairs == { i \in 1..(N - 1) : stall.samples[i] = stall.samples[i + 1] }
    IN  /\ r.unchangedCount = Cardinality(pairs)
        /\ r.isStalled <=> (r.unchangedCount = N - 1)

\* C7 witness: the three samples A, B, A were captured: no adjacent pair is
\* identical although the first and the last are, and the call reported no
\* stall with unchangedCount 0.
C7_Witness ==
  /\ stall.pc = "done"
  /\ stall.samples = <<"A", "B", "A">>
  /\ stall.result[1].unchangedCount = 0
  /\ ~stall.result[1].isStalled

\* C8: whenever the stall detector has returned, for its sample count N and
\* its samples, confidence is "high" when all adjacent pairs are identical
\* and N >= 3, otherwise "medium" when the number of identical adjacent
\* pairs is at least N/2, otherwise "low".
C8_StallConfidence ==
  stall.pc = "done" =>
    LET r  == stall.result[1]
        N  == stall.sampleCount
        u  == Cardinality({ i \in 1..(Len(stall.samples) - 1) :
                              stall.samples[i] = stall.samples[i + 1] })
    IN  /\ N = Len(stall.samples)
        /\ r.confidence =
             IF u = N - 1 /\ N >= 3 THEN "high"
             ELSE IF 2 * u >= N THEN "medium"
             ELSE "low"

\* C8 witness: three samples with one identical adjacent pair: 1 is below
\* 3/2, and the call reported "low".
C8_Witness ==
  /\ stall.pc = "done"
  /\ stall.sampleCount = 3
  /\ stall.samples = <<"A", "A", "B">>
  /\ stall.result[1].unchangedCount = 1
  /\ stall.result[1].confidence = "low"

\* C9: under any interleaving of getTmuxPath and startBackgroundTmuxCheck
\* calls, `which tmux` is spawned at most once per process, and once the
\* lookup or the verification has failed no promise handed to a caller is
\* fulfilled with anything but null (all are, once the failure is cached).
C9_LookupSpawnedOnce ==
  /\ spawnCount <= 1
  /\ (lookup.pc \in {"resolved", "done"} /\ lookup.path = NULL) =>
       /\ \A i \in DOMAIN calls : calls[i].value = NULL
       /\ lookup.pc = "done" =>
            /\ tmuxPath = NULL
            /\ \A i \in DOMAIN calls : calls[i].state = "fulfilled"

\* C9 witness: the verification failed, and calls made while the lookup
\* was in flight and after the failure was cached all got null from the one
\* spawn.
C9_Witness ==
  /\ lookup.pc = "done" /\ lookup.path = NULL /\ lookup.stdout # <<>>
  /\ spawnCount = 1
  /\ \E i, j \in DOMAIN calls :
       /\ calls[i].at = "which" /\ calls[j].at = "done"
       /\ calls[i].value = NULL /\ calls[j].state = "fulfilled"

=============================================================================
